---- MODULE Spec2Model ----
(***************************************************************************)
(* Model of the insurance-compliance engine of backend-python:             *)
(*   services/pdf_service.py   analyze_coi_compliance                      *)
(*   services/pdf_service.py   parse_insurance_program_pdf                 *)
(*   integrations/adobe_pdf_service.py   extract_coi_fields                *)
(* One call of the evaluator is a run of the state machine: Init draws the *)
(* arguments (COI record, requirement list) and the clock reading, and the *)
(* actions are the sections of the function body in program order.  The    *)
(* requirement parser and the certificate field extractor are modelled the *)
(* same way, one action per recognizer, over texts drawn in their Init.    *)
(***************************************************************************)
EXTENDS Integers, Sequences, FiniteSets, TLC

VARIABLES
    coi_data,              \* argument: the COI dict
    program_requirements,  \* argument: the list of requirement dicts
    current_date,          \* what datetime.now(timezone.utc) reads in this call
    pc,                    \* section of analyze_coi_compliance about to run
    issues,                \* local: issues
    compliant,             \* local: compliant
    exc,                   \* exception propagating out of the call, or "none"
    result,                \* the returned dict, once returned
    text,                  \* the text argument of the parser / extractor
    phrases,               \* the phrases the text was written from
    requirements,          \* local of parse_insurance_program_pdf
    parsed,                \* the dict the parser returned, once returned
    extracted,             \* local dict of extract_coi_fields
    PDF_AVAILABLE,         \* pdf_service: whether the PDF library was imported
    reader,                \* what PdfReader finds in the file of this call
    page,                  \* extract_text_from_pdf: pages the loop has read
    text_content,          \* local of extract_text_from_pdf
    calls,                 \* concurrent callers: the frame of each one's call
    entities,              \* database: the in-memory store
    data_file,             \* database: what DATA_FILE holds
    tasks,                 \* save_entities tasks the event loop has yet to run
    unscheduled            \* a mutation since the last save scheduled none

vars == <<coi_data, program_requirements, current_date, pc, issues, compliant,
          exc, result, text, phrases, requirements, parsed, extracted,
          PDF_AVAILABLE, reader, page, text_content, calls, entities,
          data_file, tasks, unscheduled>>

\* what a call of analyze_coi_compliance leaves alone
textVars == <<text, phrases, requirements, parsed, extracted>>

\* what the parser and the extractor leave alone
evalVars == <<coi_data, program_requirements, current_date, issues, compliant,
              result>>

pdfVars == <<PDF_AVAILABLE, reader, page, text_content>>

storeVars == <<entities, data_file, tasks, unscheduled>>

serviceVars == <<pdfVars, calls, storeVars>>


(***************************************************************************)
(* Bounds                                                                  *)
(***************************************************************************)
MaxT == 2        \* instants are 0..MaxT; the clock reads MaxT - 1
MaxLimit == 2    \* dollar limits on the certificate are 0..MaxLimit
MaxReqs == 2     \* length of the requirement list

(***************************************************************************)
(* Python values.  A value carries its type, so that an operation on a     *)
(* value of the wrong type raises as it does in Python.                    *)
(***************************************************************************)
PyNone == [ty |-> "NoneType"]
PyInt(n) == [ty |-> "int", v |-> n]
PyBool(b) == [ty |-> "bool", b |-> b]
PyStr(s) == [ty |-> "str", s |-> s]
PyList(l) == [ty |-> "list", items |-> l]

\* bool(x)
Truthy(x) ==
    CASE x.ty = "NoneType" -> FALSE
      [] x.ty = "int" -> x.v # 0
      [] x.ty = "bool" -> x.b
      [] x.ty = "str" -> Len(x.s) > 0
      [] x.ty = "list" -> Len(x.items) > 0

\* d.get(k, default); d.get(k) is DictGet(d, k, PyNone)
DictGet(d, k, default) == IF k \in DOMAIN d THEN d[k] ELSE default

\* a dict entry that may be missing: o is <<>> (no key) or <<value>>
Entry(k, o) == IF o = <<>> THEN <<>> ELSE (k :> o[1])

(***************************************************************************)
(* Text.  A name is a sequence of characters.                              *)
(***************************************************************************)
UpperCase == <<"A","B","C","D","E","F","G","H","I","J","K","L","M",
               "N","O","P","Q","R","S","T","U","V","W","X","Y","Z">>
LowerCase == <<"a","b","c","d","e","f","g","h","i","j","k","l","m",
               "n","o","p","q","r","s","t","u","v","w","x","y","z">>

\* str.lower(), one character
LowerChar(c) ==
    IF \E i \in 1..Len(UpperCase) : UpperCase[i] = c
    THEN LowerCase[CHOOSE i \in 1..Len(UpperCase) : UpperCase[i] = c]
    ELSE c

\* str.lower()
lower(s) == [i \in 1..Len(s) |-> LowerChar(s[i])]

\* the Python test  a in b  on two strings
Contains(a, b) ==
    \E k \in 0..(Len(b) - Len(a)) : \A i \in 1..Len(a) : b[k + i] = a[i]

\* the characters str.strip() removes and \s matches
Whitespace == {" ", "\n", "\t"}

\* str.strip()
RECURSIVE lstrip(_)
lstrip(s) == IF Len(s) > 0 /\ s[1] \in Whitespace THEN lstrip(Tail(s)) ELSE s

RECURSIVE rstrip(_)
rstrip(s) ==
    IF Len(s) > 0 /\ s[Len(s)] \in Whitespace
    THEN rstrip(SubSeq(s, 1, Len(s) - 1))
    ELSE s

strip(s) == rstrip(lstrip(s))

\* str.split(","): the pieces between commas, empty pieces kept
RECURSIVE split(_, _)
split(s, piece) ==
    IF s = <<>> THEN <<piece>>
    ELSE IF Head(s) = "," THEN <<piece>> \o split(Tail(s), <<>>)
    ELSE split(Tail(s), Append(piece, Head(s)))

(***************************************************************************)
(* Dates.  The text of a date field is a sequence of lexemes: a calendar   *)
(* date-time (naming the instant it denotes when read as UTC), a "Z"       *)
(* suffix, a "+00:00" offset, or anything else.                            *)
(***************************************************************************)
LexDateTime(t) == [lex |-> "datetime", t |-> t]
LexZ == [lex |-> "Z", t |-> 0]
LexOffset == [lex |-> "+00:00", t |-> 0]
LexOther == [lex |-> "other", t |-> 0]

\* str.replace("Z", "+00:00")
replace_Z(s) == [i \in 1..Len(s) |-> IF s[i] = LexZ THEN LexOffset ELSE s[i]]

\* datetime.fromisoformat: a date-time alone is a naive datetime, a
\* date-time followed by an offset is an aware one, anything else raises
\* ValueError
fromisoformat(s) ==
    IF Len(s) = 1 /\ s[1].lex = "datetime"
    THEN [err |-> "none", aware |-> FALSE, t |-> s[1].t]
    ELSE IF Len(s) = 2 /\ s[1].lex = "datetime" /\ s[2] = LexOffset
    THEN [err |-> "none", aware |-> TRUE, t |-> s[1].t]
    ELSE [err |-> "ValueError", aware |-> FALSE, t |-> 0]

(***************************************************************************)
(* analyze_coi_compliance.  Each section maps the locals (issues,          *)
(* compliant) and the pending exception to their values after the section. *)
(***************************************************************************)
Frame(is, c, e) == [issues |-> is, compliant |-> c, exc |-> e]

Raise(f, e) == [f EXCEPT !.exc = e]

\* variant of CoverageTest: a certificate limit equal to the required limit
\* counts as insufficient
CoverageTestInclusive(required_limit, coi_gl_limit) ==
    IF required_limit.ty # "int" THEN "TypeError"
    ELSE IF ~(required_limit.v > 0) THEN "ok"
    ELSE IF coi_gl_limit.ty # "int" THEN "TypeError"
    ELSE IF coi_gl_limit.v <= required_limit.v THEN "issue"
    ELSE "ok"

\* the condition of line 186 for one requirement: "issue" when the branch is
\* taken, "ok" when it is not, "TypeError" when a comparison raises
CoverageTest(required_limit, coi_gl_limit) ==
    IF required_limit.ty # "int" THEN "TypeError"
    ELSE IF ~(required_limit.v > 0) THEN "ok"
    ELSE IF coi_gl_limit.ty # "int" THEN "TypeError"
    ELSE IF coi_gl_limit.v < required_limit.v THEN "issue"
    ELSE "ok"

CoverageIssue(trade, required_limit, coi_gl_limit) ==
    [type |-> "coverage_insufficient", trade |-> trade,
     required |-> required_limit, actual |-> coi_gl_limit, severity |-> "high"]

\* variant of CoverageLoop: a requirement without gl_per_occurrence is held
\* to its limit
RECURSIVE CoverageLoopAnyLimit(_, _, _, _)
CoverageLoopAnyLimit(reqs, i, coi_gl_limit, f) ==
    IF i > Len(reqs) THEN f
    ELSE LET req == reqs[i]
             required_limit == DictGet(req, "gl_per_occurrence",
                                       PyInt(DictGet(req, "limit", 0)))
             trade == DictGet(req, "trade", "Unknown")
             test == CoverageTest(required_limit, coi_gl_limit)
         IN  IF test = "TypeError" THEN Raise(f, "TypeError")
             ELSE IF test = "issue"
             THEN CoverageLoopAnyLimit(reqs, i + 1, coi_gl_limit,
                      Frame(Append(f.issues,
                                   CoverageIssue(trade, required_limit, coi_gl_limit)),
                            FALSE, f.exc))
             ELSE CoverageLoopAnyLimit(reqs, i + 1, coi_gl_limit, f)

\* the loop of lines 182-194, from requirement i on
RECURSIVE CoverageLoop(_, _, _, _)
CoverageLoop(reqs, i, coi_gl_limit, f) ==
    IF i > Len(reqs) THEN f
    ELSE LET req == reqs[i]
             required_limit == DictGet(req, "gl_per_occurrence", PyInt(0))
             trade == DictGet(req, "trade", "Unknown")
             test == CoverageTest(required_limit, coi_gl_limit)
         IN  IF test = "TypeError" THEN Raise(f, "TypeError")
             ELSE IF test = "issue"
             THEN CoverageLoop(reqs, i + 1, coi_gl_limit,
                      Frame(Append(f.issues,
                                   CoverageIssue(trade, required_limit, coi_gl_limit)),
                            FALSE, f.exc))
             ELSE CoverageLoop(reqs, i + 1, coi_gl_limit, f)

\* lines 179-194
CheckGLCoverage(coi, reqs, f) ==
    CoverageLoop(reqs, 1, DictGet(coi, "gl_limits_per_occurrence", PyInt(0)), f)

\* variant of IsExpired: the operands exchanged
IsExpiredSwapped(exp_date, now) == now <= exp_date

\* variant of IsExpired: expired only strictly after the expiration instant
IsExpiredStrict(exp_date, now) == exp_date < now

\* the comparison of lines 204 and 225
IsExpired(exp_date, now) == exp_date <= now

ExpiredIssue(coverage_type, expiration) ==
    [type |-> "coverage_expired", coverage_type |-> coverage_type,
     expiration_date |-> expiration, severity |-> "critical"]

InvalidDateIssue(coverage_type) ==
    [type |-> "invalid_date_format", coverage_type |-> coverage_type,
     severity |-> "medium"]

\* the except branch of lines 212-218: the issue is recorded, compliant is
\* not assigned
GLInvalidDate(f) ==
    Frame(Append(f.issues, InvalidDateIssue("General Liability")), f.compliant, f.exc)

\* variant of CheckGLExpiration: a record without the date is reported with a
\* missing_expiration_date issue
CheckGLExpirationRequired(coi, now, f) ==
    LET gl_expiration == DictGet(coi, "gl_expiration_date", PyNone)
    IN  IF ~Truthy(gl_expiration)
        THEN Frame(Append(f.issues,
                          [type |-> "missing_expiration_date",
                           coverage_type |-> "General Liability",
                           severity |-> "high"]),
                   FALSE, f.exc)
        ELSE IF gl_expiration.ty # "str"
        THEN GLInvalidDate(f)
        ELSE LET gl_exp_date == fromisoformat(replace_Z(gl_expiration.s))
             IN  IF gl_exp_date.err = "ValueError" THEN GLInvalidDate(f)
                 ELSE IF ~gl_exp_date.aware
                 THEN Raise(f, "TypeError")
                 ELSE IF IsExpired(gl_exp_date.t, now)
                 THEN Frame(Append(f.issues,
                                   ExpiredIssue("General Liability", gl_expiration)),
                            FALSE, f.exc)
                 ELSE f

\* lines 199-218
CheckGLExpiration(coi, now, f) ==
    LET gl_expiration == DictGet(coi, "gl_expiration_date", PyNone)
    IN  IF ~Truthy(gl_expiration) THEN f
        ELSE IF gl_expiration.ty # "str"
        THEN GLInvalidDate(f)                  \* .replace: AttributeError, caught
        ELSE LET gl_exp_date == fromisoformat(replace_Z(gl_expiration.s))
             IN  IF gl_exp_date.err = "ValueError" THEN GLInvalidDate(f)
                 ELSE IF ~gl_exp_date.aware
                 THEN Raise(f, "TypeError")    \* naive <= aware, not caught
                 ELSE IF IsExpired(gl_exp_date.t, now)
                 THEN Frame(Append(f.issues,
                                   ExpiredIssue("General Liability", gl_expiration)),
                            FALSE, f.exc)
                 ELSE f

\* the except branch of lines 233-239
WCInvalidDate(f) ==
    Frame(Append(f.issues, InvalidDateIssue("Workers Compensation")), f.compliant, f.exc)

\* variant of CheckWCExpiration: the check is skipped once the certificate is
\* known to be non-compliant
CheckWCExpirationShortCircuit(coi, now, f) ==
    LET wc_expiration == DictGet(coi, "wc_expiration_date", PyNone)
    IN  IF ~f.compliant \/ ~Truthy(wc_expiration) THEN f
        ELSE IF wc_expiration.ty # "str"
        THEN WCInvalidDate(f)
        ELSE LET wc_exp_date == fromisoformat(replace_Z(wc_expiration.s))
             IN  IF wc_exp_date.err = "ValueError" THEN WCInvalidDate(f)
                 ELSE IF ~wc_exp_date.aware
                 THEN Raise(f, "TypeError")
                 ELSE IF IsExpired(wc_exp_date.t, now)
                 THEN Frame(Append(f.issues,
                                   ExpiredIssue("Workers Compensation", wc_expiration)),
                            FALSE, f.exc)
                 ELSE f

\* lines 220-239
CheckWCExpiration(coi, now, f) ==
    LET wc_expiration == DictGet(coi, "wc_expiration_date", PyNone)
    IN  IF ~Truthy(wc_expiration) THEN f
        ELSE IF wc_expiration.ty # "str"
        THEN WCInvalidDate(f)
        ELSE LET wc_exp_date == fromisoformat(replace_Z(wc_expiration.s))
             IN  IF wc_exp_date.err = "ValueError" THEN WCInvalidDate(f)
                 ELSE IF ~wc_exp_date.aware
                 THEN Raise(f, "TypeError")
                 ELSE IF IsExpired(wc_exp_date.t, now)
                 THEN Frame(Append(f.issues,
                                   ExpiredIssue("Workers Compensation", wc_expiration)),
                            FALSE, f.exc)
                 ELSE f

CertificateHolder ==
    <<"C","e","r","t","i","f","i","c","a","t","e"," ","H","o","l","d","e","r">>

\* variant of RequiredParties: a party is listed once for every requirement
\* demanding it
RECURSIVE RequiredPartiesRepeated(_, _, _)
RequiredPartiesRepeated(reqs, i, acc) ==
    IF i > Len(reqs) THEN acc
    ELSE LET req == reqs[i]
             party == DictGet(req, "additional_insured_party", PyStr(CertificateHolder))
         IN  IF Truthy(DictGet(req, "requires_additional_insured", PyBool(TRUE)))
             THEN RequiredPartiesRepeated(reqs, i + 1, Append(acc, party))
             ELSE RequiredPartiesRepeated(reqs, i + 1, acc)

\* variant of RequiredParties: an additional insured is demanded only by a
\* requirement that asks for one
RECURSIVE RequiredPartiesOptIn(_, _, _)
RequiredPartiesOptIn(reqs, i, acc) ==
    IF i > Len(reqs) THEN acc
    ELSE LET req == reqs[i]
             party == DictGet(req, "additional_insured_party", PyStr(CertificateHolder))
         IN  IF Truthy(DictGet(req, "requires_additional_insured", PyBool(FALSE)))
                /\ ~(\E j \in 1..Len(acc) : acc[j] = party)
             THEN RequiredPartiesOptIn(reqs, i + 1, Append(acc, party))
             ELSE RequiredPartiesOptIn(reqs, i + 1, acc)

\* lines 242-247: the distinct parties demanded, in requirement order
RECURSIVE RequiredParties(_, _, _)
RequiredParties(reqs, i, acc) ==
    IF i > Len(reqs) THEN acc
    ELSE LET req == reqs[i]
             party == DictGet(req, "additional_insured_party", PyStr(CertificateHolder))
         IN  IF Truthy(DictGet(req, "requires_additional_insured", PyBool(TRUE)))
                /\ ~(\E j \in 1..Len(acc) : acc[j] = party)
             THEN RequiredParties(reqs, i + 1, Append(acc, party))
             ELSE RequiredParties(reqs, i + 1, acc)

\* lines 250-253: the list of the COI, a comma-joined string split and stripped
ActualParties(coi) ==
    LET actual == DictGet(coi, "additional_insureds", PyList(<<>>))
    IN  IF actual.ty = "str"
        THEN LET pieces == split(actual.s, <<>>)
             IN  PyList([k \in 1..Len(pieces) |-> PyStr(strip(pieces[k]))])
        ELSE actual

\* variant of PartyMatches: a match in either direction counts
PartyMatchesEither(required, ai) ==
    Contains(lower(required), lower(ai)) \/ Contains(lower(ai), lower(required))

\* variant of PartyMatches: the entry sought inside the required name
PartyMatchesReversed(required, ai) == Contains(lower(ai), lower(required))

\* the generator test of line 257 for one entry
PartyMatches(required, ai) == Contains(lower(required), lower(ai))

\* any(...) of line 257 from entry k on: "true", "false", or the exception
\* raised by .lower() on an entry that is not a string
RECURSIVE AnyMatch(_, _, _)
AnyMatch(required, items, k) ==
    IF k > Len(items) THEN "false"
    ELSE IF ~Truthy(items[k]) THEN AnyMatch(required, items, k + 1)
    ELSE IF required.ty # "str" \/ items[k].ty # "str" THEN "AttributeError"
    ELSE IF PartyMatches(required.s, items[k].s) THEN "true"
    ELSE AnyMatch(required, items, k + 1)

MissingIssue(required, actual) ==
    [type |-> "missing_additional_insured", required_party |-> required,
     actual_parties |-> actual, severity |-> "high"]

\* the loop of lines 256-264, from required party i on
RECURSIVE MissingLoop(_, _, _, _)
MissingLoop(required_list, i, actual, f) ==
    IF i > Len(required_list) THEN f
    ELSE LET required == required_list[i]
             found == IF Truthy(required) THEN AnyMatch(required, actual.items, 1)
                      ELSE "true"
         IN  IF found = "AttributeError" THEN Raise(f, "AttributeError")
             ELSE IF found = "false"
             THEN MissingLoop(required_list, i + 1, actual,
                      Frame(Append(f.issues, MissingIssue(required, actual.items)),
                            FALSE, f.exc))
             ELSE MissingLoop(required_list, i + 1, actual, f)

\* lines 241-264
CheckAdditionalInsureds(coi, reqs, f) ==
    MissingLoop(RequiredParties(reqs, 1, <<>>), 1, ActualParties(coi), f)

\* the f-string of line 269, as its two varying parts
Summary(c, is) ==
    [verdict |-> IF c THEN "Compliant" ELSE "Non-compliant", count |-> Len(is)]

\* lines 266-270
ReturnValue(f) ==
    [returned |-> TRUE, compliant |-> f.compliant, issues |-> f.issues,
     summary |-> Summary(f.compliant, f.issues)]

(***************************************************************************)
(* The arguments a call is made with                                       *)
(***************************************************************************)
Instants == 0..MaxT

AwareText(t) == <<LexDateTime(t), LexOffset>>    \* datetime.isoformat() in UTC
ZuluText(t) == <<LexDateTime(t), LexZ>>
NaiveText(t) == <<LexDateTime(t)>>               \* no UTC offset
OtherText == <<LexOther>>                        \* "invalid-date-format"

\* values of gl_expiration_date and wc_expiration_date
DateValues ==
    {PyStr(AwareText(t)) : t \in Instants}
    \cup {PyStr(ZuluText(MaxT)), PyStr(NaiveText(0)), PyStr(OtherText),
          PyStr(<<>>), PyInt(20300101)}

NotANumber == PyStr(<<"1","M">>)

\* values of gl_limits_per_occurrence
LimitValues == {PyInt(a) : a \in 1..MaxLimit} \cup {NotANumber}

Owner == <<"O","w","n","e","r">>
OwnerLLC == <<"O","w","n","e","r"," ","L","L","C">>
Own == <<"O","w","n">>
CertificateHolderUpper == <<"C","E","R","T","I","F","I","C","A","T","E"," ","H","O","L","D","E","R">>
CertificateHolderLower == <<"c","e","r","t","i","f","i","c","a","t","e"," ","h","o","l","d","e","r">>
CommaJoined == <<"C","e","r","t","i","f","i","c","a","t","e"," ","H","o","l","d","e","r",","," ",",","O","w","n",",">>

\* values of additional_insureds
InsuredValues ==
    {PyList(<<PyStr(CertificateHolderUpper), PyStr(OwnerLLC)>>),
     PyList(<<PyStr(Own), PyStr(<<>>)>>),
     PyList(<<PyStr(CertificateHolderLower), PyInt(7)>>),
     PyStr(CommaJoined)}

Optional(S) == {<<>>} \cup {<<x>> : x \in S}

CoiRecords ==
    {Entry("gl_limits_per_occurrence", a) @@ Entry("gl_expiration_date", g)
       @@ Entry("wc_expiration_date", w) @@ Entry("additional_insureds", ai) :
         a \in Optional(LimitValues), g \in Optional(DateValues),
         w \in Optional(DateValues), ai \in Optional(InsuredValues)}

\* requirement dicts: as parse_insurance_program_pdf builds them for a trade,
\* and with the optional keys analyze_coi_compliance reads (the dicts of the
\* ancillary coverages reach the evaluator in SpecPipeline)
Requirements ==
    {[tier |-> 1, trade |-> "Electrical", gl_per_occurrence |-> PyInt(1),
      pattern |-> "tier_trade_table"],
     [gl_per_occurrence |-> PyInt(MaxLimit),
      requires_additional_insured |-> PyBool(FALSE)],
     [trade |-> "Plumbing", gl_per_occurrence |-> PyInt(MaxLimit),
      additional_insured_party |-> PyStr(Owner)],
     [trade |-> "Roofing", gl_per_occurrence |-> NotANumber,
      requires_additional_insured |-> PyBool(FALSE)]}

RequirementLists == UNION {[1..n -> Requirements] : n \in 0..MaxReqs}

\* no PDF is being read
PdfIdle ==
    /\ PDF_AVAILABLE = TRUE
    /\ reader = [error |-> "none", pages |-> <<>>]
    /\ page = 0
    /\ text_content = <<>>

\* no concurrent caller
CallsIdle == calls = <<>>

\* the store as the module creates it, nothing scheduled
StoreIdle ==
    /\ entities = [entity_type \in {"Project", "GeneratedCOI"} |-> <<>>]
    /\ data_file = entities
    /\ tasks = 0
    /\ unscheduled = FALSE

(***************************************************************************)
(* One call of analyze_coi_compliance                                      *)
(***************************************************************************)
Init ==
    /\ coi_data \in CoiRecords
    /\ program_requirements \in RequirementLists
    /\ current_date = MaxT - 1
    /\ pc = "coverage"
    /\ issues = <<>>                 \* line 176
    /\ compliant = TRUE              \* line 177
    /\ exc = "none"
    /\ result = [returned |-> FALSE]
    /\ text = <<>>
    /\ phrases = <<>>
    /\ requirements = <<>>
    /\ parsed = [returned |-> FALSE]
    /\ extracted = [returned |-> FALSE]
    /\ PdfIdle
    /\ CallsIdle
    /\ StoreIdle

\* variant of Arguments: the list split from a comma-joined string is stored
\* back into the COI dict
ArgumentsNormalized(coi, reqs) ==
    [coi_data |-> IF "additional_insureds" \in DOMAIN coi
                  THEN [coi EXCEPT !["additional_insureds"] = ActualParties(coi)]
                  ELSE coi,
     program_requirements |-> reqs]

\* the arguments after a section: lines 176-270 read them with get and bind
\* locals (line 253 rebinds actual_additional_insureds), and assign into
\* neither dict nor list
Arguments(coi, reqs) == [coi_data |-> coi, program_requirements |-> reqs]

\* a section has run: its locals are stored and control moves on, or the
\* exception it raised leaves the function
Advance(f, next) ==
    /\ issues' = f.issues
    /\ compliant' = f.compliant
    /\ exc' = f.exc
    /\ pc' = IF f.exc = "none" THEN next ELSE "raised"
    /\ coi_data' = Arguments(coi_data, program_requirements).coi_data
    /\ program_requirements' =
          Arguments(coi_data, program_requirements).program_requirements
    /\ UNCHANGED <<current_date, result>>
    /\ UNCHANGED textVars
    /\ UNCHANGED serviceVars

Current == Frame(issues, compliant, exc)

GLCoverage ==
    /\ pc = "coverage"
    /\ Advance(CheckGLCoverage(coi_data, program_requirements, Current),
               "gl_expiration")

GLExpiration ==
    /\ pc = "gl_expiration"
    /\ Advance(CheckGLExpiration(coi_data, current_date, Current), "wc_expiration")

WCExpiration ==
    /\ pc = "wc_expiration"
    /\ Advance(CheckWCExpiration(coi_data, current_date, Current),
               "additional_insureds")

AdditionalInsureds ==
    /\ pc = "additional_insureds"
    /\ Advance(CheckAdditionalInsureds(coi_data, program_requirements, Current),
               "return")

Return ==
    /\ pc = "return"
    /\ result' = ReturnValue(Current)
    /\ pc' = "done"
    /\ UNCHANGED <<coi_data, program_requirements, current_date, issues,
                   compliant, exc>>
    /\ UNCHANGED textVars
    /\ UNCHANGED serviceVars

Next == GLCoverage \/ GLExpiration \/ WCExpiration \/ AdditionalInsureds \/ Return

Spec == Init /\ [][Next]_vars

\* ---- texts and recognizers ----

(***************************************************************************)
(* Regular expressions, as Python's re module matches them: a pattern is a *)
(* sequence of items tried left to right, a repetition takes as much as it *)
(* can and gives back one character at a time, an alternation tries its    *)
(* branches in order.  Positions are indices into the text, from 1.        *)
(***************************************************************************)
Digits == <<"0","1","2","3","4","5","6","7","8","9">>
DigitSet == {Digits[i] : i \in 1..Len(Digits)}
LetterSet == {UpperCase[i] : i \in 1..Len(UpperCase)}
               \cup {LowerCase[i] : i \in 1..Len(LowerCase)}

\* the character classes of the patterns
InClass(cls, c) ==
    CASE cls = "\\s" -> c \in Whitespace
      [] cls = "\\d" -> c \in DigitSet
      [] cls = "\\w" -> c \in LetterSet \cup DigitSet \cup {"_"}
      [] cls = "[^\\$]" -> c # "$"
      [] cls = "[0-9,]" -> c \in DigitSet \cup {","}
      [] cls = "[\\d,]" -> c \in DigitSet \cup {","}
      [] cls = "[:\\s]" -> c \in Whitespace \cup {":"}
      [] cls = "[\\'\\']" -> c = "'"
      [] cls = "[-]" -> c = "-"
      [] cls = "[A-Z]" -> c \in LetterSet       \* under re.IGNORECASE
      [] cls = "[\\w.-]" -> c \in LetterSet \cup DigitSet \cup {"_", ".", "-"}
      [] cls = "[A-Za-z\\s&.,]" -> c \in LetterSet \cup Whitespace \cup {"&", ".", ","}

\* items of a pattern
Lit(s) == [k |-> "lit", s |-> s]                       \* literal text
Rep(cls, min, max) ==                                  \* cls{min,max}
    [k |-> "rep", cls |-> cls, min |-> min, capped |-> TRUE, max |-> max]
AtLeast(cls, min) ==                                   \* cls{min,}
    [k |-> "rep", cls |-> cls, min |-> min, capped |-> FALSE, max |-> min]
Plus(cls) == AtLeast(cls, 1)                           \* cls+
Star(cls) == AtLeast(cls, 0)                           \* cls*
Maybe(cls) == Rep(cls, 0, 1)                           \* cls?
Alt(branches) == [k |-> "alt", branches |-> branches]  \* (?:a|b)
Opt(items) == Alt(<<items, <<>>>>)                     \* (?:a)?
Many(items) == [k |-> "many", items |-> items]         \* (?:a)*
Open == [k |-> "open"]                                 \* (
Close == [k |-> "close"]                               \* )

\* the literal s stands in the text at pos; letters match in either case
\* (the patterns with letters are all compiled with re.IGNORECASE)
LitAt(s, txt, pos) ==
    /\ pos + Len(s) - 1 <= Len(txt)
    /\ \A i \in 1..Len(s) : LowerChar(txt[pos + i - 1]) = LowerChar(s[i])

\* how many characters of the class stand at pos, up to max when capped
RECURSIVE Run(_, _, _, _, _)
Run(cls, txt, pos, capped, max) ==
    IF (capped /\ max = 0) \/ pos > Len(txt) THEN 0
    ELSE IF ~InClass(cls, txt[pos]) THEN 0
    ELSE 1 + Run(cls, txt, pos + 1, capped, IF capped THEN max - 1 ELSE max)

NoMatch == [ok |-> FALSE]
NoGroups == [from |-> <<>>, to |-> <<>>]

\* the match of the items at pos, if there is one: where it ends and where
\* its groups lie
RECURSIVE Match(_, _, _, _)
RECURSIVE TryRep(_, _, _, _, _, _)
RECURSIVE TryAlt(_, _, _, _, _, _)
Match(items, txt, pos, groups) ==
    IF Len(items) = 0 THEN [ok |-> TRUE, end |-> pos, groups |-> groups]
    ELSE LET item == Head(items)
             rest == Tail(items)
         IN  CASE item.k = "lit" ->
                    IF LitAt(item.s, txt, pos)
                    THEN Match(rest, txt, pos + Len(item.s), groups)
                    ELSE NoMatch
               [] item.k = "rep" ->
                    TryRep(item, rest, txt, pos, groups,
                           Run(item.cls, txt, pos, item.capped, item.max))
               [] item.k = "alt" ->
                    TryAlt(item.branches, 1, rest, txt, pos, groups)
               [] item.k = "many" ->
                    TryAlt(<<item.items \o <<item>>, <<>>>>, 1, rest, txt, pos,
                           groups)
               [] item.k = "open" ->
                    Match(rest, txt, pos,
                          [groups EXCEPT !.from = Append(@, pos)])
               [] item.k = "close" ->
                    Match(rest, txt, pos,
                          [groups EXCEPT !.to = Append(@, pos)])

\* a repetition of n characters, then of fewer
TryRep(item, rest, txt, pos, groups, n) ==
    IF n < item.min THEN NoMatch
    ELSE LET m == Match(rest, txt, pos + n, groups)
         IN  IF m.ok THEN m ELSE TryRep(item, rest, txt, pos, groups, n - 1)

\* branch i, then the later ones
TryAlt(branches, i, rest, txt, pos, groups) ==
    IF i > Len(branches) THEN NoMatch
    ELSE LET m == Match(branches[i] \o rest, txt, pos, groups)
         IN  IF m.ok THEN m ELSE TryAlt(branches, i + 1, rest, txt, pos, groups)

\* the matches found from pos on, given the match (or NoMatch) at each position
RECURSIVE Leftmost(_, _)
Leftmost(at, pos) ==
    LET found == {p \in pos..Len(at) : at[p].ok}
    IN  IF found = {} THEN <<>>
        ELSE LET p == CHOOSE p \in found : \A q \in found : p <= q
             IN  <<[start |-> p, end |-> at[p].end, groups |-> at[p].groups]>>
                   \o Leftmost(at, at[p].end)

\* re.finditer: the matches from pos on, leftmost first, not overlapping
finditer(pattern, txt, pos) ==
    Leftmost([p \in 1..Len(txt) |-> Match(pattern, txt, p, NoGroups)], pos)

\* match.group(g) and match.group(0)
group(txt, m, g) == SubSeq(txt, m.groups.from[g], m.groups.to[g] - 1)
group0(txt, m) == SubSeq(txt, m.start, m.end - 1)

\* str.replace(',', '')
replace_commas(s) == SelectSeq(s, LAMBDA c : c # ",")

\* int() of a text of digits
DigitValue(c) == (CHOOSE i \in 1..Len(Digits) : Digits[i] = c) - 1

RECURSIVE DecimalValue(_)
DecimalValue(s) ==
    IF s = <<>> THEN 0
    ELSE 10 * DecimalValue(SubSeq(s, 1, Len(s) - 1)) + DigitValue(s[Len(s)])

\* int(s): ValueError unless s is a run of digits
int(s) ==
    IF s # <<>> /\ \A i \in 1..Len(s) : s[i] \in DigitSet
    THEN [err |-> "none", v |-> DecimalValue(s)]
    ELSE [err |-> "ValueError", v |-> 0]

(***************************************************************************)
(* parse_insurance_program_pdf: the six recognizers                        *)
(***************************************************************************)
\* line 64: Tier\s+(\d+)\s+([^\$]+)\$([0-9,]+)
Pattern1 ==
    <<Lit(<<"T","i","e","r">>), Plus("\\s"), Open, Plus("\\d"), Close, Plus("\\s"),
      Open, Plus("[^\\$]"), Close, Lit(<<"$">>), Open, Plus("[0-9,]"), Close>>

\* line 85: Prime\s+Subcontractor[:\s]+\$([0-9,]+)
Pattern2 ==
    <<Lit(<<"P","r","i","m","e">>), Plus("\\s"), Lit(<<"S","u","b","c","o","n","t","r","a","c","t","o","r">>), Plus("[:\\s]"),
      Lit(<<"$">>), Open, Plus("[0-9,]"), Close>>

\* line 103: (?:All\s+)?Tier\s+(\d+)(?:\s+trades?)?[:\s]+\$([0-9,]+)
Pattern3 ==
    <<Opt(<<Lit(<<"A","l","l">>), Plus("\\s")>>), Lit(<<"T","i","e","r">>), Plus("\\s"),
      Open, Plus("\\d"), Close,
      Opt(<<Plus("\\s"), Lit(<<"t","r","a","d","e">>), Opt(<<Lit(<<"s">>)>>)>>),
      Plus("[:\\s]"), Lit(<<"$">>), Open, Plus("[0-9,]"), Close>>

\* line 122: Workers?\s*[\'\']?\s*Comp(?:ensation)?[:\s]+\$([0-9,]+)
WorkersCompPattern ==
    <<Lit(<<"W","o","r","k","e","r">>), Opt(<<Lit(<<"s">>)>>), Star("\\s"), Maybe("[\\'\\']"),
      Star("\\s"), Lit(<<"C","o","m","p">>), Opt(<<Lit(<<"e","n","s","a","t","i","o","n">>)>>), Plus("[:\\s]"),
      Lit(<<"$">>), Open, Plus("[0-9,]"), Close>>

\* line 136: Auto(?:mobile)?\s+(?:Liability)?[:\s]+\$([0-9,]+)
AutoPattern ==
    <<Lit(<<"A","u","t","o">>), Opt(<<Lit(<<"m","o","b","i","l","e">>)>>), Plus("\\s"),
      Opt(<<Lit(<<"L","i","a","b","i","l","i","t","y">>)>>), Plus("[:\\s]"), Lit(<<"$">>),
      Open, Plus("[0-9,]"), Close>>

\* line 150: (?:Umbrella|Excess)[:\s]+\$([0-9,]+)
UmbrellaPattern ==
    <<Alt(<<<<Lit(<<"U","m","b","r","e","l","l","a">>)>>, <<Lit(<<"E","x","c","e","s","s">>)>>>>), Plus("[:\\s]"),
      Lit(<<"$">>), Open, Plus("[0-9,]"), Close>>

\* a dict built for one match, or the exception building it raised
Built(rec) == [err |-> "none", rec |-> rec]
Failed(err) == [err |-> err, rec |-> <<>>]

\* variant of TierTradeRecord: the trade text kept as matched
TierTradeRecordUntrimmed(txt, m) ==
    LET tier == int(group(txt, m, 1))
        limit == int(replace_commas(group(txt, m, 3)))
    IN  IF tier.err # "none" THEN Failed(tier.err)
        ELSE IF limit.err # "none" THEN Failed(limit.err)
        ELSE Built([tier |-> tier.v, trade |-> group(txt, m, 2),
                    gl_per_occurrence |-> PyInt(limit.v),
                    pattern |-> "tier_trade_table"])

\* lines 70-79
TierTradeRecord(txt, m) ==
    LET tier == int(group(txt, m, 1))
        trade == strip(group(txt, m, 2))
        limit == int(replace_commas(group(txt, m, 3)))
    IN  IF tier.err # "none" THEN Failed(tier.err)
        ELSE IF limit.err # "none" THEN Failed(limit.err)
        ELSE Built([tier |-> tier.v, trade |-> trade,
                    gl_per_occurrence |-> PyInt(limit.v),
                    pattern |-> "tier_trade_table"])

PrimeSubcontractor == <<"P","r","i","m","e"," ","S","u","b","c","o","n","t","r","a","c","t","o","r">>

\* lines 91-97
PrimeRecord(txt, m) ==
    LET limit == int(replace_commas(group(txt, m, 1)))
    IN  IF limit.err # "none" THEN Failed(limit.err)
        ELSE Built([tier |-> 1, trade |-> PrimeSubcontractor,
                    gl_per_occurrence |-> PyInt(limit.v),
                    pattern |-> "prime_subcontractor"])

\* line 113: f"Tier {tier} (All Trades)"
AllTrades(tier) == <<"T","i","e","r"," ">> \o tier \o <<" ","(","A","l","l"," ","T","r","a","d","e","s",")">>

\* lines 109-116
GeneralTierRecord(txt, m) ==
    LET tier == int(group(txt, m, 1))
        limit == int(replace_commas(group(txt, m, 2)))
    IN  IF tier.err # "none" THEN Failed(tier.err)
        ELSE IF limit.err # "none" THEN Failed(limit.err)
        ELSE Built([tier |-> tier.v, trade |-> AllTrades(group(txt, m, 1)),
                    gl_per_occurrence |-> PyInt(limit.v),
                    pattern |-> "general_tier"])

\* lines 127-132, 141-146, 157-162: the dict of an ancillary coverage
AncillaryRecord(txt, m, type) ==
    LET limit == int(replace_commas(group(txt, m, 1)))
    IN  IF limit.err # "none" THEN Failed(limit.err)
        ELSE Built([type |-> type, limit |-> limit.v, pattern |-> type])

\* the for loop over the matches: the dicts are appended in match order until
\* one raises
ParseFrame(reqs, e) == [requirements |-> reqs, exc |-> e]

AppendBuilt(f, built) ==
    LET bad == {i \in 1..Len(built) : built[i].err # "none"}
    IN  IF bad = {}
        THEN ParseFrame(f.requirements \o [i \in 1..Len(built) |-> built[i].rec],
                        f.exc)
        ELSE LET first == CHOOSE i \in bad : \A j \in bad : i <= j
             IN  ParseFrame(f.requirements
                              \o [i \in 1..(first - 1) |-> built[i].rec],
                            built[first].err)

\* variant of TierTradeLoop: the matches taken last to first
TierTradeLoopBackwards(txt, f) ==
    LET ms == finditer(Pattern1, txt, 1)
    IN  AppendBuilt(f, [i \in 1..Len(ms) |->
                          TierTradeRecord(txt, ms[Len(ms) + 1 - i])])

\* lines 63-80
TierTradeLoop(txt, f) ==
    LET ms == finditer(Pattern1, txt, 1)
    IN  AppendBuilt(f, [i \in 1..Len(ms) |-> TierTradeRecord(txt, ms[i])])

\* lines 84-98
PrimeLoop(txt, f) ==
    LET ms == finditer(Pattern2, txt, 1)
    IN  AppendBuilt(f, [i \in 1..Len(ms) |-> PrimeRecord(txt, ms[i])])

\* variant of GeneralTierLoop: a match the tier/trade table also covers is
\* passed over
GeneralTierLoopDeduplicated(txt, f) ==
    LET ms == finditer(Pattern3, txt, 1)
        p1 == finditer(Pattern1, txt, 1)
        fresh == SelectSeq(ms, LAMBDA m :
                    ~\E i \in 1..Len(p1) : p1[i].end = m.end)
    IN  AppendBuilt(f, [i \in 1..Len(fresh) |-> GeneralTierRecord(txt, fresh[i])])

\* lines 102-117
GeneralTierLoop(txt, f) ==
    LET ms == finditer(Pattern3, txt, 1)
    IN  AppendBuilt(f, [i \in 1..Len(ms) |-> GeneralTierRecord(txt, ms[i])])

\* lines 121-132
WorkersCompLoop(txt, f) ==
    LET ms == finditer(WorkersCompPattern, txt, 1)
    IN  AppendBuilt(f, [i \in 1..Len(ms) |->
                          AncillaryRecord(txt, ms[i], "workers_comp")])

\* lines 135-146
AutoLoop(txt, f) ==
    LET ms == finditer(AutoPattern, txt, 1)
    IN  AppendBuilt(f, [i \in 1..Len(ms) |-> AncillaryRecord(txt, ms[i], "auto")])

\* lines 149-162
UmbrellaLoop(txt, f) ==
    LET ms == finditer(UmbrellaPattern, txt, 1)
    IN  AppendBuilt(f, [i \in 1..Len(ms) |->
                          AncillaryRecord(txt, ms[i], "umbrella")])

\* lines 164-168
ParseResult(reqs) ==
    [returned |-> TRUE, success |-> TRUE, requirements |-> reqs,
     totalFound |-> Len(reqs)]

(***************************************************************************)
(* Program texts: lines of an insurance program document                   *)
(***************************************************************************)
MaxPhrases == 2    \* lines of a program text

PhraseNames ==
    {"tier_trade", "prime", "all_tier", "workers_comp", "auto", "umbrella",
     "commas_only", "notes"}

PhraseText(name) ==
    CASE name = "tier_trade" -> <<"T","i","e","r"," ","1"," ","E","l","e","c","t","r","i","c","a","l"," ","$","2",",","0","0","0",",","0","0","0">>
      [] name = "prime" -> <<"P","r","i","m","e"," ","S","u","b","c","o","n","t","r","a","c","t","o","r",":"," ","$","5",",","0","0","0",",","0","0","0">>
      [] name = "all_tier" -> <<"A","l","l"," ","T","i","e","r"," ","2"," ","t","r","a","d","e","s",":"," ","$","3",",","0","0","0",",","0","0","0">>
      [] name = "workers_comp" -> <<"W","o","r","k","e","r","s","'"," ","C","o","m","p","e","n","s","a","t","i","o","n",":"," ","$","1",",","0","0","0",",","0","0","0">>
      [] name = "auto" -> <<"A","u","t","o"," ","L","i","a","b","i","l","i","t","y",":"," ","$","1",",","0","0","0",",","0","0","0">>
      [] name = "umbrella" -> <<"U","m","b","r","e","l","l","a",":"," ","$","5",",","0","0","0",",","0","0","0">>
      [] name = "commas_only" -> <<"E","x","c","e","s","s",":"," ","$",",",",",",">>
      [] name = "notes" -> <<"G","e","n","e","r","a","l"," ","r","e","q","u","i","r","e","m","e","n","t","s">>

PhraseLists == UNION {[1..n -> PhraseNames] : n \in 0..MaxPhrases}

\* the lines joined into one text
RECURSIVE Render(_)
Render(ps) ==
    IF Len(ps) = 0 THEN <<>>
    ELSE IF Len(ps) = 1 THEN PhraseText(ps[1])
    ELSE PhraseText(ps[1]) \o <<"\n">> \o Render(Tail(ps))

\* certificates checked against the parsed requirements
PipelineCois ==
    {Entry("gl_limits_per_occurrence", a) @@ Entry("additional_insureds", <<ai>>) :
        a \in Optional({PyInt(2500000)}),
        ai \in {PyList(<<PyStr(CertificateHolderUpper), PyStr(OwnerLLC)>>),
                PyList(<<PyStr(Own), PyStr(<<>>)>>)}}

(***************************************************************************)
(* One call of parse_insurance_program_pdf, then one call of               *)
(* analyze_coi_compliance with the requirements it returned                *)
(***************************************************************************)
InitPipeline ==
    /\ phrases \in PhraseLists
    /\ text = Render(phrases)
    /\ requirements = <<>>           \* line 59
    /\ parsed = [returned |-> FALSE]
    /\ extracted = [returned |-> FALSE]
    /\ coi_data \in PipelineCois
    /\ program_requirements = <<>>
    /\ current_date = MaxT - 1
    /\ pc = "pattern1"
    /\ issues = <<>>
    /\ compliant = TRUE
    /\ exc = "none"
    /\ result = [returned |-> FALSE]
    /\ PdfIdle
    /\ CallsIdle
    /\ StoreIdle

\* a recognizer has run: its dicts are in the list and control moves on, or
\* the exception it raised leaves the function
ParseStep(f, next) ==
    /\ requirements' = f.requirements
    /\ exc' = f.exc
    /\ pc' = IF f.exc = "none" THEN next ELSE "raised"
    /\ UNCHANGED <<text, phrases, parsed, extracted>>
    /\ UNCHANGED evalVars
    /\ UNCHANGED serviceVars

ParseCurrent == ParseFrame(requirements, exc)

RunPattern1 ==
    /\ pc = "pattern1"
    /\ ParseStep(TierTradeLoop(text, ParseCurrent), "pattern2")

RunPattern2 ==
    /\ pc = "pattern2"
    /\ ParseStep(PrimeLoop(text, ParseCurrent), "pattern3")

RunPattern3 ==
    /\ pc = "pattern3"
    /\ ParseStep(GeneralTierLoop(text, ParseCurrent), "workers_comp")

RunWorkersComp ==
    /\ pc = "workers_comp"
    /\ ParseStep(WorkersCompLoop(text, ParseCurrent), "auto")

RunAuto ==
    /\ pc = "auto"
    /\ ParseStep(AutoLoop(text, ParseCurrent), "umbrella")

RunUmbrella ==
    /\ pc = "umbrella"
    /\ ParseStep(UmbrellaLoop(text, ParseCurrent), "parse_return")

ParseReturn ==
    /\ pc = "parse_return"
    /\ parsed' = ParseResult(requirements)
    /\ pc' = "parsed"
    /\ UNCHANGED <<text, phrases, requirements, extracted, exc>>
    /\ UNCHANGED evalVars
    /\ UNCHANGED serviceVars

\* analyze_coi_compliance is entered with the list the parser returned
Enter ==
    /\ pc = "parsed"
    /\ program_requirements' = parsed.requirements
    /\ issues' = <<>>
    /\ compliant' = TRUE
    /\ pc' = "coverage"
    /\ UNCHANGED <<coi_data, current_date, exc, result>>
    /\ UNCHANGED textVars
    /\ UNCHANGED serviceVars

NextPipeline ==
    \/ RunPattern1 \/ RunPattern2 \/ RunPattern3
    \/ RunWorkersComp \/ RunAuto \/ RunUmbrella \/ ParseReturn
    \/ Enter
    \/ GLCoverage \/ GLExpiration \/ WCExpiration \/ AdditionalInsureds \/ Return

SpecPipeline == InitPipeline /\ [][NextPipeline]_vars

(***************************************************************************)
(* extract_coi_fields: the text of the certificate, as the extraction      *)
(* service yields it, and the five recognizers                             *)
(***************************************************************************)
MaxBlocks == 2    \* blocks of a certificate text

BlockNames == {"insurer", "liability", "producer", "effective", "expiration"}

\* blocks of the certificate text of _mock_extract_text
BlockText(name) ==
    CASE name = "insurer" ->
            <<"I","N","S","U","R","E","R"," ","A",":"," ","N","a","t","i","o","n","a","l"," ","I","n","s","u","r","a","n","c","e"," ","C","o","m","p","a","n","y","\n","P","O","L","I","C","Y"," ","#",":"," ","P","O","L","-","G","L","-","2","0","2","6","-","0","0","0","1">>
      [] name = "liability" -> <<"G","e","n","e","r","a","l"," ","L","i","a","b","i","l","i","t","y",":"," ","$","2",",","0","0","0",",","0","0","0"," ","E","a","c","h"," ","O","c","c","u","r","r","e","n","c","e">>
      [] name = "producer" -> <<"E","m","a","i","l",":"," ","b","r","o","k","e","r","@","a","c","m","e","i","n","s",".","c","o","m">>
      [] name = "effective" -> <<"E","f","f","e","c","t","i","v","e"," ","D","a","t","e",":"," ","0","1","/","0","1","/","2","0","2","6">>
      [] name = "expiration" -> <<"E","x","p","i","r","a","t","i","o","n"," ","D","a","t","e",":"," ","0","1","/","0","1","/","2","0","2","7">>

BlockLists == UNION {[1..n -> BlockNames] : n \in 0..MaxBlocks}

RECURSIVE RenderBlocks(_)
RenderBlocks(bs) ==
    IF Len(bs) = 0 THEN <<>>
    ELSE IF Len(bs) = 1 THEN BlockText(bs[1])
    ELSE BlockText(bs[1]) \o <<"\n">> \o RenderBlocks(Tail(bs))

\* line 81: POL[-]?\w+[-]?\d+
policy_regex ==
    <<Lit(<<"P","O","L">>), Maybe("[-]"), Plus("\\w"), Maybe("[-]"), Plus("\\d")>>

\* line 85: \$[\d,]+(?:,\d{3})*(?:\.\d{2})?
amount_regex ==
    <<Lit(<<"$">>), Plus("[\\d,]"), Many(<<Lit(<<",">>), Rep("\\d", 3, 3)>>),
      Opt(<<Lit(<<".">>), Rep("\\d", 2, 2)>>)>>

\* line 89: \d{2}/\d{2}/\d{4}
date_regex ==
    <<Rep("\\d", 2, 2), Lit(<<"/">>), Rep("\\d", 2, 2), Lit(<<"/">>), Rep("\\d", 4, 4)>>

\* line 95: [\w.-]+@[\w.-]+\.\w+
email_regex ==
    <<Plus("[\\w.-]"), Lit(<<"@">>), Plus("[\\w.-]"), Lit(<<".">>), Plus("\\w")>>

\* line 100: (?:INSURER|INSURANCE|COMPANY)\s+[A-Z]:\s*([A-Za-z\s&.,]+)
insurer_regex ==
    <<Alt(<<<<Lit(<<"I","N","S","U","R","E","R">>)>>, <<Lit(<<"I","N","S","U","R","A","N","C","E">>)>>, <<Lit(<<"C","O","M","P","A","N","Y">>)>>>>),
      Plus("\\s"), Rep("[A-Z]", 1, 1), Lit(<<":">>), Star("\\s"),
      Open, Plus("[A-Za-z\\s&.,]"), Close>>

\* re.findall of a pattern without groups: the matched texts
findall(pattern, txt) ==
    LET ms == finditer(pattern, txt, 1)
    IN  [i \in 1..Len(ms) |-> group0(txt, ms[i])]

\* re.findall of a pattern with one group: the texts of the group
findall_group(pattern, txt) ==
    LET ms == finditer(pattern, txt, 1)
    IN  [i \in 1..Len(ms) |-> group(txt, ms[i], 1)]

\* list(set(l)): the distinct elements of l, in an order the build chooses
ListsOfSet(l) ==
    LET S == {l[i] : i \in 1..Len(l)}
    IN  {o \in [1..Cardinality(S) -> S] : {o[i] : i \in 1..Cardinality(S)} = S}

\* lines 67-77: the dict before the recognizers run (its source and
\* extractedAt entries, which no recognizer touches, are left out)
EmptyFields ==
    [returned |-> FALSE,
     insurance_carriers |-> <<>>, policy_numbers |-> <<>>,
     coverage_limits |-> <<>>, effective_dates |-> <<>>,
     expiration_dates |-> <<>>, additional_insureds |-> <<>>,
     contact_emails |-> <<>>]

InitExtract ==
    /\ text = <<>>
    /\ phrases = <<>>
    /\ requirements = <<>>
    /\ parsed = [returned |-> FALSE]
    /\ extracted = [returned |-> FALSE]
    /\ coi_data = <<>>
    /\ program_requirements = <<>>
    /\ current_date = MaxT - 1
    /\ pc = "extract_text"
    /\ issues = <<>>
    /\ compliant = TRUE
    /\ exc = "none"
    /\ result = [returned |-> FALSE]
    /\ PdfIdle
    /\ CallsIdle
    /\ StoreIdle

\* a step of extract_coi_fields has run
ExtractStep(next) ==
    /\ pc' = next
    /\ UNCHANGED <<text, phrases, requirements, parsed, exc>>
    /\ UNCHANGED evalVars
    /\ UNCHANGED serviceVars

\* lines 64-77: the text comes back from extract_text
ExtractText ==
    /\ pc = "extract_text"
    /\ \E bs \in BlockLists :
          /\ phrases' = bs
          /\ text' = RenderBlocks(bs)
    /\ extracted' = EmptyFields
    /\ pc' = "policy_numbers"
    /\ UNCHANGED <<requirements, parsed, exc>>
    /\ UNCHANGED evalVars
    /\ UNCHANGED serviceVars

\* lines 80-82
PolicyNumbers ==
    /\ pc = "policy_numbers"
    /\ \E l \in ListsOfSet(findall(policy_regex, text)) :
          extracted' = [extracted EXCEPT !.policy_numbers = l]
    /\ ExtractStep("coverage_limits")

\* lines 84-86
CoverageLimits ==
    /\ pc = "coverage_limits"
    /\ \E l \in ListsOfSet(findall(amount_regex, text)) :
          extracted' = [extracted EXCEPT !.coverage_limits = l]
    /\ ExtractStep("dates")

\* lines 88-92
Dates ==
    /\ pc = "dates"
    /\ \E dates \in ListsOfSet(findall(date_regex, text)) :
          extracted' = [extracted EXCEPT !.expiration_dates = dates,
                                         !.effective_dates = dates]
    /\ ExtractStep("contact_emails")

\* lines 94-96
ContactEmails ==
    /\ pc = "contact_emails"
    /\ \E l \in ListsOfSet(findall(email_regex, text)) :
          extracted' = [extracted EXCEPT !.contact_emails = l]
    /\ ExtractStep("insurance_carriers")

\* lines 98-101
InsuranceCarriers ==
    /\ pc = "insurance_carriers"
    /\ LET insurer_lines == findall_group(insurer_regex, text)
       IN  extracted' =
             [extracted EXCEPT !.insurance_carriers =
                 [i \in 1..Len(insurer_lines) |-> strip(insurer_lines[i])]]
    /\ ExtractStep("extract_return")

\* line 103
ExtractReturn ==
    /\ pc = "extract_return"
    /\ extracted' = [extracted EXCEPT !.returned = TRUE]
    /\ ExtractStep("extract_done")

NextExtract ==
    \/ ExtractText \/ PolicyNumbers \/ CoverageLimits \/ Dates
    \/ ContactEmails \/ InsuranceCarriers \/ ExtractReturn

SpecExtract == InitExtract /\ [][NextExtract]_vars

\* ---- end of texts and recognizers ----

(***************************************************************************)
(* Vocabulary of the properties                                            *)
(***************************************************************************)
DateKeys == {"gl_expiration_date", "wc_expiration_date"}

CoverageName(k) ==
    IF k = "gl_expiration_date" THEN "General Liability" ELSE "Workers Compensation"

\* the field is in the COI record
Supplied(k) == k \in DOMAIN coi_data

\* the text denotes an instant: a date-time with its UTC designator or offset
IsInstantText(v) ==
    /\ v.ty = "str"
    /\ Len(v.s) = 2
    /\ v.s[1].lex = "datetime"
    /\ v.s[2].lex \in {"Z", "+00:00"}

InstantOf(v) == v.s[1].t

Parseable(k) == Supplied(k) /\ IsInstantText(coi_data[k])
Unparsable(k) == Supplied(k) /\ ~IsInstantText(coi_data[k])

Returned == pc = "done"

\* the issues of the result of one type about one coverage
DateIssues(type, k) ==
    SelectSeq(result.issues,
              LAMBDA x : x.type = type /\ x.coverage_type = CoverageName(k))

IssuesOfType(type) == SelectSeq(result.issues, LAMBDA x : x.type = type)

(***************************************************************************)
(* C1  An expiration date that is in the record but does not parse as an   *)
(* ISO-8601 instant makes the returned result non-compliant, whatever the  *)
(* other inputs are.                                                       *)
(***************************************************************************)
C1_UnparsableDateFailsClosed ==
    (Returned /\ \E k \in DateKeys : Unparsable(k)) => result.compliant = FALSE

(***************************************************************************)
(* C2  The returned verdict is compliant exactly when the returned issue   *)
(* list is empty.                                                          *)
(***************************************************************************)
C2_CompliantIffNoIssues ==
    Returned => (result.compliant <=> result.issues = <<>>)

(***************************************************************************)
(* C3  With certificate limit A, the coverage_insufficient issues of the   *)
(* result are exactly one per requirement whose limit L has A < L, in      *)
(* requirement order, each of severity high and carrying the requirement's *)
(* trade, required = L and actual = A; a requirement with A >= L (A = L    *)
(* included) gets none.                                                    *)
(***************************************************************************)
CertificateLimit == DictGet(coi_data, "gl_limits_per_occurrence", PyInt(0))

RequiredLimit(i) == DictGet(program_requirements[i], "gl_per_occurrence", PyInt(0))

LimitsAreAmounts ==
    /\ CertificateLimit.ty = "int"
    /\ \A i \in 1..Len(program_requirements) : RequiredLimit(i).ty = "int"

ShortRequirements ==
    SelectSeq([i \in 1..Len(program_requirements) |-> i],
              LAMBDA i : CertificateLimit.v < RequiredLimit(i).v)

ExpectedCoverageIssues ==
    [n \in 1..Len(ShortRequirements) |->
        [type |-> "coverage_insufficient",
         trade |-> DictGet(program_requirements[ShortRequirements[n]],
                           "trade", "Unknown"),
         required |-> RequiredLimit(ShortRequirements[n]),
         actual |-> CertificateLimit,
         severity |-> "high"]]

C3_InsufficientIffBelow ==
    (Returned /\ LimitsAreAmounts) =>
        IssuesOfType("coverage_insufficient") = ExpectedCoverageIssues

\* a returned call with one requirement met exactly and one not met
C3_Witness ==
    /\ Returned
    /\ LimitsAreAmounts
    /\ \E i \in 1..Len(program_requirements) : RequiredLimit(i) = CertificateLimit
    /\ \E i \in 1..Len(program_requirements) :
           CertificateLimit.v < RequiredLimit(i).v

(***************************************************************************)
(* C4  For each of the two expiration dates, when it is in the record and  *)
(* parses as an instant: the result holds exactly one coverage_expired     *)
(* issue for that coverage (severity critical, carrying the expiration     *)
(* value) if the instant is at or before the reference instant, and then   *)
(* the result is non-compliant; it holds none for that coverage otherwise. *)
(***************************************************************************)
C4_ExpiredIffAtOrBefore ==
    Returned =>
        \A k \in DateKeys :
            Parseable(k) =>
                IF InstantOf(coi_data[k]) <= current_date
                THEN /\ DateIssues("coverage_expired", k) =
                            <<[type |-> "coverage_expired",
                               coverage_type |-> CoverageName(k),
                               expiration_date |-> coi_data[k],
                               severity |-> "critical"]>>
                     /\ result.compliant = FALSE
                ELSE DateIssues("coverage_expired", k) = <<>>

\* a returned call whose GL date is the reference instant itself and whose
\* WC date is later
C4_Witness ==
    /\ Returned
    /\ Parseable("gl_expiration_date")
    /\ InstantOf(coi_data["gl_expiration_date"]) = current_date
    /\ Parseable("wc_expiration_date")
    /\ InstantOf(coi_data["wc_expiration_date"]) > current_date

C6_OneInvalidIssuePerUnparsableDate ==
    Returned =>
        \A k \in DateKeys :
            /\ DateIssues("invalid_date_format", k) =
                   IF Unparsable(k)
                   THEN <<[type |-> "invalid_date_format",
                           coverage_type |-> CoverageName(k),
                           severity |-> "medium"]>>
                   ELSE <<>>
            /\ Unparsable(k) => DateIssues("coverage_expired", k) = <<>>

(***************************************************************************)
(* C7  When both expiration dates are instants strictly after the          *)
(* reference instant, the certificate limit is at least every required     *)
(* limit, and every demanded additional-insured party is contained         *)
(* (ignoring case) in some additional-insured entry of the certificate,    *)
(* the call returns compliant = True and no issues.                        *)
(***************************************************************************)
Terminated == pc \in {"done", "raised"}

\* the parties the requirements demand: the one a requirement names, or
\* "Certificate Holder", unless the requirement says none is required
DemandedParties ==
    {DictGet(program_requirements[i], "additional_insured_party",
             PyStr(CertificateHolder)) :
        i \in {j \in 1..Len(program_requirements) :
                 DictGet(program_requirements[j], "requires_additional_insured",
                         PyBool(TRUE)) # PyBool(FALSE)}}

CertificateEntries == ActualParties(coi_data).items

EntriesAreNames ==
    \A n \in 1..Len(CertificateEntries) : CertificateEntries[n].ty = "str"

Matched(party) ==
    \E n \in 1..Len(CertificateEntries) :
        Contains(lower(party.s), lower(CertificateEntries[n].s))

C7_Preconditions ==
    /\ \A k \in DateKeys :
           Parseable(k) /\ InstantOf(coi_data[k]) > current_date
    /\ LimitsAreAmounts
    /\ \A i \in 1..Len(program_requirements) :
           CertificateLimit.v >= RequiredLimit(i).v
    /\ EntriesAreNames
    /\ \A party \in DemandedParties : Matched(party)

C7_AllChecksPassCompliant ==
    (Terminated /\ C7_Preconditions) =>
        /\ Returned
        /\ result.compliant = TRUE
        /\ result.issues = <<>>

\* a returned call with a positive required limit and two demanded parties,
\* one of them named by a requirement
C7_Witness ==
    /\ Returned
    /\ C7_Preconditions
    /\ \E i \in 1..Len(program_requirements) : RequiredLimit(i).v > 0
    /\ Cardinality(DemandedParties) = 2

(***************************************************************************)
(* C8  The call never raises: no exception leaves analyze_coi_compliance,  *)
(* whatever the field values are.                                          *)
(***************************************************************************)
C8_NeverRaises == exc = "none" /\ pc # "raised"

(***************************************************************************)
(* C9  Every expiration date that is in the record is either an instant,   *)
(* which the evaluation compares with the reference instant, or is         *)
(* reported with an invalid_date_format issue for its coverage.            *)
(***************************************************************************)
C9_SuppliedDateClassifiedOrFlagged ==
    Returned =>
        \A k \in DateKeys :
            Supplied(k) =>
                Parseable(k) \/ DateIssues("invalid_date_format", k) # <<>>

(***************************************************************************)
(* C10  When an expiration date is not in the record, the section that     *)
(* checks it leaves the issues, the verdict and the pending exception as   *)
(* they were; and no issue of type missing_expiration_date is ever         *)
(* recorded.                                                               *)
(***************************************************************************)
C10_AbsentDateNoIssue ==
    [][/\ (pc = "gl_expiration" /\ ~Supplied("gl_expiration_date"))
            => (issues' = issues /\ compliant' = compliant /\ exc' = exc)
       /\ (pc = "wc_expiration" /\ ~Supplied("wc_expiration_date"))
            => (issues' = issues /\ compliant' = compliant /\ exc' = exc)
       /\ \A n \in 1..Len(issues') : issues'[n].type # "missing_expiration_date"
      ]_vars

\* a returned call without either date, compliant although requirements
\* were checked
C10_Witness ==
    /\ Returned
    /\ ~Supplied("gl_expiration_date")
    /\ ~Supplied("wc_expiration_date")
    /\ program_requirements # <<>>
    /\ result.compliant = TRUE

(***************************************************************************)
(* C11  A demanded additional-insured party is satisfied exactly when some *)
(* entry of the certificate's list contains the party's name, ignoring     *)
(* case (an entry that is only a part of the name does not satisfy it).    *)
(* An unsatisfied party gets exactly one missing_additional_insured issue, *)
(* of severity high, carrying the party and the whole list of entries, and *)
(* the result is non-compliant; a satisfied party gets none.               *)
(***************************************************************************)
MatchedByName(party) ==
    \E n \in 1..Len(CertificateEntries) :
        /\ CertificateEntries[n].ty = "str"
        /\ Contains(lower(party.s), lower(CertificateEntries[n].s))

MissingIssuesFor(party) ==
    SelectSeq(result.issues,
              LAMBDA x : x.type = "missing_additional_insured"
                           /\ x.required_party = party)

C11_MissingIffNotContained ==
    Returned =>
        \A party \in DemandedParties :
            IF MatchedByName(party)
            THEN MissingIssuesFor(party) = <<>>
            ELSE /\ MissingIssuesFor(party) =
                        <<[type |-> "missing_additional_insured",
                           required_party |-> party,
                           actual_parties |-> CertificateEntries,
                           severity |-> "high"]>>
                 /\ result.compliant = FALSE

\* a returned call where "Owner" is demanded and the certificate lists "Own"
C11_Witness ==
    /\ Returned
    /\ PyStr(Owner) \in DemandedParties
    /\ \E n \in 1..Len(CertificateEntries) : CertificateEntries[n] = PyStr(Own)
    /\ ~MatchedByName(PyStr(Owner))

(***************************************************************************)
(* C12  When additional_insureds is given as one comma-joined string, the  *)
(* list reported in actual_parties holds only trimmed, non-empty names.    *)
(***************************************************************************)
TrimmedName(v) ==
    /\ v.ty = "str"
    /\ v.s # <<>>
    /\ v.s[1] # " "
    /\ v.s[Len(v.s)] # " "

C12_JoinedStringGivesNames ==
    (/\ Returned
     /\ "additional_insureds" \in DOMAIN coi_data
     /\ coi_data["additional_insureds"].ty = "str")
    => \A i \in 1..Len(result.issues) :
          result.issues[i].type = "missing_additional_insured" =>
              \A n \in 1..Len(result.issues[i].actual_parties) :
                  TrimmedName(result.issues[i].actual_parties[n])

(***************************************************************************)
(* C13  Every check runs whatever the earlier checks found, and the issues *)
(* of the result are in check order: the coverage_insufficient issues in   *)
(* requirement order, then the issue of the GL date, then the issue of the *)
(* WC date, then the missing_additional_insured issues.                    *)
(***************************************************************************)
CoveragePart == IF LimitsAreAmounts THEN ExpectedCoverageIssues ELSE <<>>

DatePart(k) ==
    IF Parseable(k) /\ InstantOf(coi_data[k]) <= current_date
    THEN <<[type |-> "coverage_expired", coverage_type |-> CoverageName(k),
            expiration_date |-> coi_data[k], severity |-> "critical"]>>
    ELSE IF Unparsable(k) /\ Truthy(coi_data[k])
    THEN <<[type |-> "invalid_date_format", coverage_type |-> CoverageName(k),
            severity |-> "medium"]>>
    ELSE <<>>

UnmatchedParties ==
    SelectSeq(RequiredParties(program_requirements, 1, <<>>),
              LAMBDA party : ~MatchedByName(party))

MissingPart ==
    [n \in 1..Len(UnmatchedParties) |->
        [type |-> "missing_additional_insured",
         required_party |-> UnmatchedParties[n],
         actual_parties |-> CertificateEntries,
         severity |-> "high"]]

C13_EveryCheckInOrder ==
    Returned =>
        result.issues = CoveragePart \o DatePart("gl_expiration_date")
                          \o DatePart("wc_expiration_date") \o MissingPart

\* a returned call that fails all four checks
C13_Witness ==
    /\ Returned
    /\ CoveragePart # <<>>
    /\ DatePart("gl_expiration_date") # <<>>
    /\ DatePart("wc_expiration_date") # <<>>
    /\ MissingPart # <<>>

(***************************************************************************)
(* Vocabulary of the parser claims.  What a phrase of the text says is     *)
(* read off the phrase itself, not off the recognizers.                    *)
(***************************************************************************)
ParseReturned == parsed.returned
ParserRaised == pc = "raised" /\ ~parsed.returned

Elements(seq) == {seq[i] : i \in 1..Len(seq)}

PatternOrder ==
    <<"tier_trade_table", "prime_subcontractor", "general_tier",
      "workers_comp", "auto", "umbrella">>

Rank(tag) == CHOOSE i \in 1..Len(PatternOrder) : PatternOrder[i] = tag

\* the phrases each recognizer's layout covers
Recognized(tag) ==
    CASE tag = "tier_trade_table" -> {"tier_trade", "all_tier"}
      [] tag = "prime_subcontractor" -> {"prime"}
      [] tag = "general_tier" -> {"all_tier"}
      [] tag = "workers_comp" -> {"workers_comp"}
      [] tag = "auto" -> {"auto"}
      [] tag = "umbrella" -> {"umbrella"}

\* the dollar amount a phrase states
PhraseLimit(name) ==
    CASE name = "tier_trade" -> 2000000
      [] name = "prime" -> 5000000
      [] name = "all_tier" -> 3000000
      [] name = "workers_comp" -> 1000000
      [] name = "auto" -> 1000000
      [] name = "umbrella" -> 5000000

LimitOf(req) ==
    IF "gl_per_occurrence" \in DOMAIN req THEN req.gl_per_occurrence.v
    ELSE req.limit

Tagged(tag) == SelectSeq(parsed.requirements, LAMBDA r : r.pattern = tag)

(***************************************************************************)
(* C15  The parser never raises, whatever the text; every requirement it   *)
(* returns has a non-negative integer limit; a keyword followed by an      *)
(* amount without digits gives no requirement; a text without matches      *)
(* returns success, no requirements and totalFound = 0.                    *)
(***************************************************************************)
C15_ParserNeverRaises ==
    /\ ~ParserRaised
    /\ ParseReturned =>
          /\ parsed.success
          /\ \A i \in 1..Len(parsed.requirements) :
                LimitOf(parsed.requirements[i]) \in Nat
          /\ (\A i \in 1..Len(phrases) : phrases[i] \in {"notes", "commas_only"})
                => parsed.requirements = <<>> /\ parsed.totalFound = 0

(***************************************************************************)
(* C16  The returned requirements are in pattern order (tier/trade table,  *)
(* prime subcontractor, general tier, workers' comp, auto, umbrella), and  *)
(* the requirements of one recognizer are in the order of their phrases in *)
(* the text.                                                               *)
(***************************************************************************)
PhrasesOf(tag) == SelectSeq(phrases, LAMBDA name : name \in Recognized(tag))

C16_PatternThenTextOrder ==
    ParseReturned =>
        /\ \A i, j \in 1..Len(parsed.requirements) :
              i < j => Rank(parsed.requirements[i].pattern)
                         <= Rank(parsed.requirements[j].pattern)
        /\ \A tag \in Elements(PatternOrder) :
              [i \in 1..Len(Tagged(tag)) |-> LimitOf(Tagged(tag)[i])]
                = [i \in 1..Len(PhrasesOf(tag)) |-> PhraseLimit(PhrasesOf(tag)[i])]

\* the general-tier phrase stands before the tier/trade phrase: pattern order
\* and text order differ, and the table recognizer matches both lines
C16_Witness ==
    /\ ParseReturned
    /\ phrases = <<"all_tier", "tier_trade">>
    /\ Len(parsed.requirements) > Len(phrases)

(***************************************************************************)
(* C17  Nothing is deduplicated across recognizers: the number of returned *)
(* requirements, and totalFound, is the sum of the recognizers' match      *)
(* counts; "All Tier 2 trades: $3,000,000" gives two requirements.         *)
(***************************************************************************)
Hits(name) ==
    Cardinality({tag \in Elements(PatternOrder) : name \in Recognized(tag)})

RECURSIVE TotalHits(_)
TotalHits(names) ==
    IF Len(names) = 0 THEN 0 ELSE Hits(Head(names)) + TotalHits(Tail(names))

C17_CountIsSumOfMatches ==
    ParseReturned =>
        /\ Len(parsed.requirements) = TotalHits(phrases)
        /\ parsed.totalFound = TotalHits(phrases)

\* a text whose only line is the phrase two recognizers match
C17_Witness ==
    /\ ParseReturned
    /\ phrases = <<"all_tier">>
    /\ parsed.totalFound = Len(phrases) + 1

(***************************************************************************)
(* C18  "Tier N <trade> $X" gives tier N, the trimmed trade text, limit X  *)
(* without separators, tag tier_trade_table; "Prime Subcontractor: $X"     *)
(* gives tier 1, trade "Prime Subcontractor", limit X, tag                 *)
(* prime_subcontractor; "All Tier N trades: $X" gives tier N, trade        *)
(* "Tier N (All Trades)", limit X, tag general_tier.                       *)
(***************************************************************************)
Documented(name) ==
    CASE name = "tier_trade" ->
            [tier |-> 1, trade |-> <<"E","l","e","c","t","r","i","c","a","l">>,
             gl_per_occurrence |-> PyInt(PhraseLimit(name)),
             pattern |-> "tier_trade_table"]
      [] name = "prime" ->
            [tier |-> 1, trade |-> <<"P","r","i","m","e"," ","S","u","b","c","o","n","t","r","a","c","t","o","r">>,
             gl_per_occurrence |-> PyInt(PhraseLimit(name)),
             pattern |-> "prime_subcontractor"]
      [] name = "all_tier" ->
            [tier |-> 2, trade |-> <<"T","i","e","r"," ","2"," ","(","A","l","l"," ","T","r","a","d","e","s",")">>,
             gl_per_occurrence |-> PyInt(PhraseLimit(name)),
             pattern |-> "general_tier"]

C18_PhraseGivesDocumentedRecord ==
    ParseReturned =>
        /\ \A name \in {"tier_trade", "prime", "all_tier"} :
              name \in Elements(phrases)
                <=> Documented(name) \in Elements(parsed.requirements)
        /\ \A tag \in {"prime_subcontractor", "general_tier"} :
              Elements(Tagged(tag))
                \subseteq {Documented(name) : name \in Recognized(tag)}
        /\ \A i \in 1..Len(parsed.requirements) :
              parsed.requirements[i].pattern = "tier_trade_table"
                => DOMAIN parsed.requirements[i]
                     = {"tier", "trade", "gl_per_occurrence", "pattern"}

\* a text with a tier/trade line and a prime subcontractor line
C18_Witness ==
    /\ ParseReturned
    /\ "tier_trade" \in Elements(phrases)
    /\ "prime" \in Elements(phrases)

(***************************************************************************)
(* C19  A workers_comp, auto or umbrella requirement has a type and a      *)
(* limit and neither tier nor trade, and the coverage step never reports   *)
(* coverage_insufficient for it, whatever its limit: the issues of that    *)
(* type are those of the general-liability requirements above the          *)
(* certificate's limit.                                                    *)
(***************************************************************************)
AncillaryTypes == {"workers_comp", "auto", "umbrella"}

IsAncillary(req) == req.pattern \in AncillaryTypes

GLRequirementsAbove ==
    SelectSeq(program_requirements,
              LAMBDA req : /\ ~IsAncillary(req)
                           /\ req.gl_per_occurrence.v > CertificateLimit.v)

C19_AncillaryNeverInsufficient ==
    /\ ParseReturned =>
          \A i \in 1..Len(parsed.requirements) :
              IsAncillary(parsed.requirements[i]) =>
                  /\ DOMAIN parsed.requirements[i] = {"type", "limit", "pattern"}
                  /\ parsed.requirements[i].type \in AncillaryTypes
    /\ (ParseReturned /\ Returned) =>
          [i \in 1..Len(IssuesOfType("coverage_insufficient")) |->
              IssuesOfType("coverage_insufficient")[i].required]
            = [i \in 1..Len(GLRequirementsAbove) |->
                  GLRequirementsAbove[i].gl_per_occurrence]

\* a certificate whose limit is below the limit of an umbrella requirement
C19_Witness ==
    /\ ParseReturned
    /\ Returned
    /\ \E i \in 1..Len(program_requirements) :
          /\ program_requirements[i].pattern = "umbrella"
          /\ "gl_limits_per_occurrence" \in DOMAIN coi_data
          /\ CertificateLimit.v < program_requirements[i].limit

(***************************************************************************)
(* C20  No list that extract_coi_fields returns (policy_numbers,           *)
(* coverage_limits, the dates, insurance_carriers, contact_emails) holds   *)
(* an element twice, also when a token stands several times in the text.   *)
(***************************************************************************)
NoDuplicates(l) == \A i, j \in 1..Len(l) : i # j => l[i] # l[j]

ListFields ==
    {"policy_numbers", "coverage_limits", "effective_dates", "expiration_dates",
     "insurance_carriers", "contact_emails"}

C23_SummaryFollowsVerdict ==
    Returned =>
        /\ result.summary.verdict = "Compliant" <=> result.compliant
        /\ result.summary.verdict = "Non-compliant" <=> ~result.compliant
        /\ result.summary.count = Len(result.issues)
        /\ result.summary.verdict = "Compliant" => result.summary.count = 0

(***************************************************************************)
(* C25  A party demanded by several requirements is demanded once: the     *)
(* result has at most one missing_additional_insured issue for a party,    *)
(* and as many such issues as there are distinct non-empty demanded        *)
(* parties that no entry of the certificate matches.                       *)
(***************************************************************************)
UnmatchedDemanded ==
    {party \in DemandedParties : Truthy(party) /\ ~MatchedByName(party)}

C25_OneIssuePerMissingParty ==
    Returned =>
        /\ \A party \in DemandedParties : Len(MissingIssuesFor(party)) <= 1
        /\ Len(IssuesOfType("missing_additional_insured"))
             = Cardinality(UnmatchedDemanded)

\* a returned call with two requirements demanding the same unmatched party
Demands(i) ==
    DictGet(program_requirements[i], "requires_additional_insured", PyBool(TRUE))
        # PyBool(FALSE)

PartyOf(i) ==
    DictGet(program_requirements[i], "additional_insured_party",
            PyStr(CertificateHolder))

C25_Witness ==
    /\ Returned
    /\ \E i, j \in 1..Len(program_requirements) :
          /\ i < j
          /\ Demands(i) /\ Demands(j)
          /\ PartyOf(i) = PartyOf(j)
          /\ PartyOf(i) \in UnmatchedDemanded

(***************************************************************************)
(* C26  No step of analyze_coi_compliance changes its arguments: the COI   *)
(* record and the requirements keep their keys and values, also when       *)
(* additional_insureds is a comma-joined string.                           *)
(***************************************************************************)
C26_ArgumentsUnchanged ==
    [][coi_data' = coi_data /\ program_requirements' = program_requirements]_vars

\* a returned call whose additional_insureds was a comma-joined string
C26_Witness ==
    /\ Returned
    /\ Len(IssuesOfType("missing_additional_insured")) > 0
    /\ "additional_insureds" \in DOMAIN coi_data
    /\ coi_data["additional_insureds"].ty = "str"

(***************************************************************************)
(* C24  A requirement that does not set requires_additional_insured to     *)
(* false demands an additional insured, "Certificate Holder" when it names *)
(* none: with a non-empty list of requirements from the parser (ancillary  *)
(* ones included), a certificate none of whose entries contains            *)
(* "certificate holder" is non-compliant and has a                         *)
(* missing_additional_insured issue.                                       *)
(***************************************************************************)
HolderListed == MatchedByName(PyStr(CertificateHolder))

C24_HolderDemandedByDefault ==
    (ParseReturned /\ Returned /\ Len(program_requirements) > 0 /\ ~HolderListed)
        => /\ result.compliant = FALSE
           /\ \E i \in 1..Len(result.issues) :
                 /\ result.issues[i].type = "missing_additional_insured"
                 /\ result.issues[i].required_party = PyStr(CertificateHolder)

\* only ancillary requirements, and a certificate listing another party
C24_Witness ==
    /\ ParseReturned
    /\ Returned
    /\ Len(program_requirements) > 0
    /\ \A i \in 1..Len(program_requirements) : IsAncillary(program_requirements[i])
    /\ Len(CertificateEntries) > 0
    /\ ~HolderListed

(***************************************************************************)
(* extract_text_from_pdf: one call on a file.  The file is what PdfReader  *)
(* finds in it: an error on opening, or pages each giving a text or an     *)
(* error to extract_text.                                                  *)
(***************************************************************************)
MaxPages == 2    \* pages of a file

\* the evaluator's and the parser's variables while neither runs
EvaluatorIdle ==
    /\ coi_data = <<>>
    /\ program_requirements = <<>>
    /\ current_date = MaxT - 1
    /\ issues = <<>>
    /\ compliant = TRUE
    /\ exc = "none"
    /\ result = [returned |-> FALSE]

TextIdle ==
    /\ text = <<>>
    /\ phrases = <<>>
    /\ requirements = <<>>
    /\ parsed = [returned |-> FALSE]
    /\ extracted = [returned |-> FALSE]

PageText(s) == [text |-> s, error |-> "none"]
PageError(e) == [text |-> <<>>, error |-> e]

\* what page.extract_text() gives: a text, possibly empty, or an exception
PageOutcomes ==
    {PageText(<<>>), PageText(<<"a">>), PageText(<<"b", " ">>),
     PageError("PdfReadError"), PageError("KeyError")}

\* what PdfReader(str(file_path)) gives: an exception, or the pages
Readers ==
    {[error |-> e, pages |-> <<>>] : e \in {"FileNotFoundError", "PdfReadError"}}
    \cup {[error |-> "none", pages |-> ps] :
             ps \in UNION {[1..n -> PageOutcomes] : n \in 0..MaxPages}}

\* sep.join(l)
RECURSIVE join(_, _)
join(sep, l) ==
    IF l = <<>> THEN <<>>
    ELSE IF Len(l) = 1 THEN l[1]
    ELSE l[1] \o sep \o join(sep, Tail(l))

\* variant of ExceptException: only the library's own error is caught
ExceptPdfReadError(e) == e = "PdfReadError"

\* except Exception (line 44): every exception but those deriving from
\* BaseException alone
ExceptException(e) == e \notin {"KeyboardInterrupt", "SystemExit", "GeneratorExit"}

InitPdf ==
    /\ PDF_AVAILABLE \in BOOLEAN           \* lines 14-19, set at import
    /\ reader \in Readers
    /\ page = 0
    /\ text_content = <<>>
    /\ pc = "pdf_available"
    /\ EvaluatorIdle
    /\ TextIdle
    /\ CallsIdle
    /\ StoreIdle

\* return value
PdfReturn(value) ==
    /\ result' = [returned |-> TRUE, value |-> value]
    /\ pc' = "pdf_returned"
    /\ exc' = "none"

\* lines 44-46: an exception raised in the try block is logged and "" is
\* returned, or it leaves the function
PdfExcept(e) ==
    IF ExceptException(e)
    THEN PdfReturn(<<>>)
    ELSE /\ exc' = e
         /\ pc' = "raised"
         /\ UNCHANGED result

\* lines 27-29
PdfAvailable ==
    /\ pc = "pdf_available"
    /\ IF ~PDF_AVAILABLE
       THEN PdfReturn(<<>>)
       ELSE /\ pc' = "pdf_open"
            /\ UNCHANGED <<exc, result>>
    /\ UNCHANGED <<PDF_AVAILABLE, reader, page, text_content>>
    /\ UNCHANGED <<coi_data, program_requirements, current_date, issues, compliant>>
    /\ UNCHANGED <<textVars, calls, storeVars>>

\* lines 31-33
PdfOpen ==
    /\ pc = "pdf_open"
    /\ IF reader.error # "none"
       THEN /\ PdfExcept(reader.error)
            /\ UNCHANGED text_content
       ELSE /\ text_content' = <<>>
            /\ pc' = "pdf_pages"
            /\ UNCHANGED <<exc, result>>
    /\ UNCHANGED <<PDF_AVAILABLE, reader, page>>
    /\ UNCHANGED <<coi_data, program_requirements, current_date, issues, compliant>>
    /\ UNCHANGED <<textVars, calls, storeVars>>

\* lines 35-38, one turn of the loop
PdfPage ==
    /\ pc = "pdf_pages"
    /\ page < Len(reader.pages)
    /\ LET outcome == reader.pages[page + 1]
       IN  IF outcome.error # "none"
           THEN /\ PdfExcept(outcome.error)
                /\ UNCHANGED <<page, text_content>>
           ELSE /\ page' = page + 1
                /\ text_content' = IF Len(outcome.text) > 0
                                   THEN Append(text_content, outcome.text)
                                   ELSE text_content
                /\ UNCHANGED <<pc, exc, result>>
    /\ UNCHANGED <<PDF_AVAILABLE, reader>>
    /\ UNCHANGED <<coi_data, program_requirements, current_date, issues, compliant>>
    /\ UNCHANGED <<textVars, calls, storeVars>>

\* lines 40-42: the texts joined and returned
PdfJoin ==
    /\ pc = "pdf_pages"
    /\ page = Len(reader.pages)
    /\ PdfReturn(join(<<"\n">>, text_content))
    /\ UNCHANGED <<PDF_AVAILABLE, reader, page, text_content>>
    /\ UNCHANGED <<coi_data, program_requirements, current_date, issues, compliant>>
    /\ UNCHANGED <<textVars, calls, storeVars>>

NextPdf == PdfAvailable \/ PdfOpen \/ PdfPage \/ PdfJoin

SpecPdf == InitPdf /\ [][NextPdf]_vars

(***************************************************************************)
(* C21  extract_text_from_pdf never lets an exception reach its caller:    *)
(* when the PDF library is unavailable, or opening the file or extracting  *)
(* a page fails, it returns the empty string.                              *)
(***************************************************************************)
ReadFails ==
    \/ reader.error # "none"
    \/ \E i \in 1..Len(reader.pages) : reader.pages[i].error # "none"

C21_NeverPropagates ==
    /\ exc = "none"
    /\ pc # "raised"
    /\ (pc = "pdf_returned" /\ (~PDF_AVAILABLE \/ ReadFails))
          => result.value = <<>>

\* a page fails after another page's text was collected
C21_Witness ==
    /\ pc = "pdf_returned"
    /\ PDF_AVAILABLE
    /\ Len(text_content) > 0
    /\ ReadFails
    /\ result.value = <<>>

(***************************************************************************)
(* Several callers in analyze_coi_compliance at once (threads, or requests *)
(* of one process).  Each call has its own arguments and locals; the clock *)
(* is the one thing all of them read.  A step is one section of one call,  *)
(* so the calls interleave section by section.                             *)
(***************************************************************************)
MaxCallers == 2

\* arguments of the concurrent calls
ConcurrentCois ==
    {Entry("gl_limits_per_occurrence", <<PyInt(1)>>)
       @@ Entry("gl_expiration_date", g)
       @@ Entry("additional_insureds", <<PyStr(CommaJoined)>>) :
         g \in {<<PyStr(AwareText(1))>>, <<PyStr(NaiveText(0))>>}}

ConcurrentRequirements ==
    {<<[tier |-> 1, trade |-> "Electrical", gl_per_occurrence |-> PyInt(1),
        pattern |-> "tier_trade_table"]>>,
     <<[trade |-> "Plumbing", gl_per_occurrence |-> PyInt(MaxLimit),
        additional_insured_party |-> PyStr(Owner)]>>}

\* a call at line 176: arguments bound, locals initialised, the clock not
\* yet read
Called(coi, reqs) ==
    [coi_data |-> coi, program_requirements |-> reqs, current_date |-> 0,
     pc |-> "coverage", issues |-> <<>>, compliant |-> TRUE, exc |-> "none",
     result |-> [returned |-> FALSE]]

InitConcurrent ==
    /\ calls \in [1..MaxCallers ->
                    {Called(coi, reqs) : coi \in ConcurrentCois,
                                         reqs \in ConcurrentRequirements}]
    /\ current_date = 0
    /\ pc = "serving"
    /\ coi_data = <<>>
    /\ program_requirements = <<>>
    /\ issues = <<>>
    /\ compliant = TRUE
    /\ exc = "none"
    /\ result = [returned |-> FALSE]
    /\ TextIdle
    /\ PdfIdle
    /\ StoreIdle

\* variant of FrameOf: issues and compliant are kept in one place for all
\* callers
FrameOfShared(cs, caller) ==
    Frame(cs[1].issues, cs[1].compliant, cs[caller].exc)

\* lines 176-177: issues and compliant are locals of the call
FrameOf(cs, caller) ==
    Frame(cs[caller].issues, cs[caller].compliant, cs[caller].exc)

\* a section of one call has run
CallAdvance(caller, now, f, next) ==
    /\ calls' = [calls EXCEPT ![caller] =
                    [@ EXCEPT !.issues = f.issues,
                              !.compliant = f.compliant,
                              !.exc = f.exc,
                              !.current_date = now,
                              !.pc = IF f.exc = "none" THEN next ELSE "raised"]]
    /\ UNCHANGED <<coi_data, program_requirements, current_date, pc, issues,
                   compliant, exc, result>>
    /\ UNCHANGED <<textVars, pdfVars, storeVars>>

CallGLCoverage ==
    \E caller \in DOMAIN calls :
        /\ calls[caller].pc = "coverage"
        /\ CallAdvance(caller, calls[caller].current_date,
                       CheckGLCoverage(calls[caller].coi_data,
                                       calls[caller].program_requirements,
                                       FrameOf(calls, caller)),
                       "gl_expiration")

\* line 197 reads the clock, lines 199-218 use what it read
CallGLExpiration ==
    \E caller \in DOMAIN calls :
        /\ calls[caller].pc = "gl_expiration"
        /\ CallAdvance(caller, current_date,
                       CheckGLExpiration(calls[caller].coi_data, current_date,
                                         FrameOf(calls, caller)),
                       "wc_expiration")

CallWCExpiration ==
    \E caller \in DOMAIN calls :
        /\ calls[caller].pc = "wc_expiration"
        /\ CallAdvance(caller, calls[caller].current_date,
                       CheckWCExpiration(calls[caller].coi_data,
                                         calls[caller].current_date,
                                         FrameOf(calls, caller)),
                       "additional_insureds")

CallAdditionalInsureds ==
    \E caller \in DOMAIN calls :
        /\ calls[caller].pc = "additional_insureds"
        /\ CallAdvance(caller, calls[caller].current_date,
                       CheckAdditionalInsureds(calls[caller].coi_data,
                                               calls[caller].program_requirements,
                                               FrameOf(calls, caller)),
                       "return")

CallReturn ==
    \E caller \in DOMAIN calls :
        /\ calls[caller].pc = "return"
        /\ calls' = [calls EXCEPT ![caller] =
                        [@ EXCEPT !.result = ReturnValue(FrameOf(calls, caller)),
                                  !.pc = "done"]]
        /\ UNCHANGED <<coi_data, program_requirements, current_date, pc, issues,
                       compliant, exc, result>>
        /\ UNCHANGED <<textVars, pdfVars, storeVars>>

\* time passes
Tick ==
    /\ current_date < MaxT
    /\ current_date' = current_date + 1
    /\ UNCHANGED <<coi_data, program_requirements, pc, issues, compliant, exc,
                   result, calls>>
    /\ UNCHANGED <<textVars, pdfVars, storeVars>>

NextConcurrent ==
    \/ CallGLCoverage \/ CallGLExpiration \/ CallWCExpiration
    \/ CallAdditionalInsureds \/ CallReturn \/ Tick

SpecConcurrent == InitConcurrent /\ [][NextConcurrent]_vars

(***************************************************************************)
(* C22  Concurrent evaluations do not interfere: under every interleaving, *)
(* each call ends as it would when run alone on its own arguments and the  *)
(* instant it read from the clock, with the same result or exception.      *)
(***************************************************************************)
\* the call run alone: the sections one after the other, up to the first
\* exception
Alone(coi, reqs, now) ==
    LET f0 == Frame(<<>>, TRUE, "none")
        f1 == CheckGLCoverage(coi, reqs, f0)
        f2 == IF f1.exc = "none" THEN CheckGLExpiration(coi, now, f1) ELSE f1
        f3 == IF f2.exc = "none" THEN CheckWCExpiration(coi, now, f2) ELSE f2
        f4 == IF f3.exc = "none" THEN CheckAdditionalInsureds(coi, reqs, f3) ELSE f3
    IN  f4

MaxEntities == 2   \* entities of one type
MaxTasks == 1      \* save tasks waiting in the event loop

\* str(n) of a natural number
RECURSIVE DecimalText(_)
DecimalText(n) ==
    IF n < 10 THEN <<Digits[n + 1]>>
    ELSE Append(DecimalText(n \div 10), Digits[(n % 10) + 1])

\* str(x), as lines 89, 133 and 160 apply it to ids
str(x) ==
    CASE x.ty = "str" -> x.s
      [] x.ty = "int" -> DecimalText(x.v)
      [] x.ty = "NoneType" -> <<"N", "o", "n", "e">>

\* entity types of the calls: a known one and one the store does not have
EntityTypes == {"Project", "Widget"}

\* what str(uuid.uuid4()) can give
Uuids == {<<"u", "1">>, <<"u", "2">>}

\* ids of the calls: the one callers supply and a generated one
EntityIds == {PyStr(<<"a">>), PyStr(<<"u", "1">>)}

\* request bodies of create and of update
CreateData == {<<>>, "id" :> PyStr(<<"a">>)}

UpdateData == {"status" :> PyStr(<<"x">>)}

\* dict.update(data): the entries of data over those of entity
update(entity, data) ==
    [k \in DOMAIN entity \cup DOMAIN data |->
        IF k \in DOMAIN data THEN data[k] ELSE entity[k]]

\* datetime.now(timezone.utc).isoformat()
Timestamp(now) == PyStr(AwareText(now))

\* lines 100-107: the dict create_entity stores, uuid being what
\* str(uuid.uuid4()) gives
Created(data, uuid, now) ==
    update(IF "id" \in DOMAIN data THEN data ELSE update(data, "id" :> PyStr(uuid)),
           ("created_at" :> Timestamp(now)) @@ ("updated_at" :> Timestamp(now)))

\* lines 89, 133, 160: the test that an entity has the id
HasId(entity, entity_id) == str(DictGet(entity, "id", PyNone)) = str(entity_id)

\* lines 83-92: <<>> for None, or the first entity with the id
get_entity(store, entity_type, entity_id) ==
    IF entity_type \notin DOMAIN store THEN <<>>
    ELSE LET l == store[entity_type]
             hits == {i \in 1..Len(l) : HasId(l[i], entity_id)}
         IN  IF hits = {} THEN <<>>
             ELSE <<l[CHOOSE i \in hits : \A j \in hits : i <= j]>>

\* lines 132-149, the store after update_entity: the first entity with the
\* id takes the entries of data and a new updated_at
Updated(store, entity_type, entity_id, data, now) ==
    LET l == store[entity_type]
        hits == {i \in 1..Len(l) : HasId(l[i], entity_id)}
        first == CHOOSE i \in hits : \A j \in hits : i <= j
    IN  [store EXCEPT ![entity_type] =
            [l EXCEPT ![first] =
                update(update(l[first], data), "updated_at" :> Timestamp(now))]]

\* variant of Without: the first entity is dropped, whatever its id
WithoutFirst(l, entity_id) == IF l = <<>> THEN <<>> ELSE Tail(l)

\* lines 157-161: the list without the entities that have the id
RECURSIVE Without(_, _)
Without(l, entity_id) ==
    IF l = <<>> THEN <<>>
    ELSE IF HasId(Head(l), entity_id) THEN Without(Tail(l), entity_id)
    ELSE <<Head(l)>> \o Without(Tail(l), entity_id)

\* variant of Saves: no save is scheduled
SavesNever(loop) == 0

\* lines 114-122, 141-146, 164-169: create_task(save_entities()) when a loop
\* is running, nothing when get_running_loop raises RuntimeError
Saves(loop) == IF loop THEN 1 ELSE 0

\* what a finished call leaves for its caller
Outcome(op, entity_type, entity_id, ok) ==
    [returned |-> TRUE, op |-> op, entity_type |-> entity_type,
     entity_id |-> entity_id, ok |-> ok]

InitStore ==
    /\ StoreIdle
    /\ pc = "serving"
    /\ coi_data = <<>>
    /\ program_requirements = <<>>
    /\ current_date = MaxT - 1
    /\ issues = <<>>
    /\ compliant = TRUE
    /\ exc = "none"
    /\ result = [returned |-> FALSE]
    /\ TextIdle
    /\ PdfIdle
    /\ CallsIdle

\* the store after a mutation, and the save it schedules
Mutate(store, loop) ==
    /\ loop => tasks < MaxTasks
    /\ entities' = store
    /\ tasks' = tasks + Saves(loop)
    /\ unscheduled' = (unscheduled \/ ~loop)
    /\ UNCHANGED data_file

StoreUnchanged == UNCHANGED <<entities, data_file, tasks, unscheduled>>

StoreFrame ==
    /\ UNCHANGED <<coi_data, program_requirements, current_date, issues, compliant>>
    /\ UNCHANGED <<textVars, pdfVars, calls>>

\* lines 95-124
CreateEntity ==
    /\ pc = "serving"
    /\ \E entity_type \in EntityTypes, data \in CreateData, loop \in BOOLEAN :
       \E uuid \in IF "id" \in DOMAIN data THEN {<<>>} ELSE Uuids :
          IF entity_type \notin DOMAIN entities
          THEN /\ exc' = "ValueError"
               /\ result' = Outcome("create_entity", entity_type, PyNone, FALSE)
               /\ StoreUnchanged
          ELSE /\ Len(entities[entity_type]) < MaxEntities
               /\ \A t \in DOMAIN entities : get_entity(entities, t, PyStr(uuid)) = <<>>
               /\ LET entity == Created(data, uuid, current_date)
                  IN  /\ Mutate([entities EXCEPT ![entity_type] = Append(@, entity)],
                                loop)
                      /\ result' = Outcome("create_entity", entity_type,
                                           entity["id"], TRUE)
               /\ exc' = "none"
    /\ UNCHANGED pc
    /\ StoreFrame

\* lines 127-149
UpdateEntity ==
    /\ pc = "serving"
    /\ \E entity_type \in EntityTypes, entity_id \in EntityIds,
          data \in UpdateData, loop \in BOOLEAN :
          /\ IF get_entity(entities, entity_type, entity_id) = <<>>
             THEN StoreUnchanged
             ELSE Mutate(Updated(entities, entity_type, entity_id, data,
                                 current_date), loop)
          /\ result' = Outcome("update_entity", entity_type, entity_id,
                               get_entity(entities, entity_type, entity_id) # <<>>)
    /\ exc' = "none"
    /\ UNCHANGED pc
    /\ StoreFrame

\* lines 152-173
DeleteEntity ==
    /\ pc = "serving"
    /\ \E entity_type \in EntityTypes, entity_id \in EntityIds, loop \in BOOLEAN :
          IF entity_type \notin DOMAIN entities
          THEN /\ result' = Outcome("delete_entity", entity_type, entity_id, FALSE)
               /\ StoreUnchanged
          ELSE LET rest == Without(entities[entity_type], entity_id)
               IN  IF Len(rest) < Len(entities[entity_type])
                   THEN /\ Mutate([entities EXCEPT ![entity_type] = rest], loop)
                        /\ result' = Outcome("delete_entity", entity_type,
                                             entity_id, TRUE)
                   ELSE /\ result' = Outcome("delete_entity", entity_type,
                                             entity_id, FALSE)
                        /\ StoreUnchanged
    /\ exc' = "none"
    /\ UNCHANGED pc
    /\ StoreFrame

\* lines 83-92
GetEntity ==
    /\ pc = "serving"
    /\ \E entity_type \in EntityTypes, entity_id \in EntityIds :
          result' = Outcome("get_entity", entity_type, entity_id,
                            get_entity(entities, entity_type, entity_id) # <<>>)
    /\ exc' = "none"
    /\ StoreUnchanged
    /\ UNCHANGED pc
    /\ StoreFrame

\* lines 68-75, run by the event loop as a scheduled task: the store as it
\* is now goes to DATA_FILE (every value of an entity is a JSON value, so
\* the file reads back as the store)
SaveEntities ==
    /\ pc = "serving"
    /\ tasks > 0
    /\ data_file' = entities
    /\ tasks' = tasks - 1
    /\ unscheduled' = FALSE
    /\ result' = Outcome("save_entities", "", PyNone, TRUE)
    /\ UNCHANGED <<entities, pc, exc>>
    /\ StoreFrame

\* lines 78-80, at shutdown
CloseDb ==
    /\ pc = "serving"
    /\ data_file' = entities
    /\ unscheduled' = FALSE
    /\ pc' = "closed"
    /\ result' = Outcome("close_db", "", PyNone, TRUE)
    /\ UNCHANGED <<entities, tasks, exc>>
    /\ StoreFrame

NextStore ==
    \/ CreateEntity \/ UpdateEntity \/ DeleteEntity \/ GetEntity
    \/ SaveEntities \/ CloseDb

SpecStore == InitStore /\ [][NextStore]_vars

(***************************************************************************)
(* C27  Every successful create, update or delete made while an event loop *)
(* is running schedules a save, and a save writes the store as it is when  *)
(* it runs: once no scheduled save is waiting and no mutation since the    *)
(* last save went unscheduled, DATA_FILE holds the in-memory store.  A     *)
(* mutation made with no running loop reaches DATA_FILE only through a     *)
(* later save or close_db, after which DATA_FILE holds the store again.    *)
(***************************************************************************)
Persisted == data_file = entities

EntityCalls == {"create_entity", "update_entity", "delete_entity", "get_entity"}

C29_FailedCallsChangeNothing ==
    [][LET op == result'.op
           unknown == result'.entity_type \notin DOMAIN entities
           missing == get_entity(entities, result'.entity_type,
                                 result'.entity_id) = <<>>
       IN  op \in EntityCalls =>
             /\ unknown =>
                  /\ ~result'.ok
                  /\ storeVars' = storeVars
                  /\ (op = "create_entity") <=> (exc' = "ValueError")
             /\ (op \in {"update_entity", "delete_entity"} /\ missing) =>
                  /\ ~result'.ok
                  /\ storeVars' = storeVars]_vars

\* create_entity on an unknown type has raised, the store holding entities
C29_Witness ==
    /\ result.returned
    /\ result.op = "create_entity"
    /\ result.entity_type \notin DOMAIN entities
    /\ exc = "ValueError"
    /\ Len(entities["Project"]) > 0

(***************************************************************************)
(* C30  The ids of the entities stored under one entity type are pairwise  *)
(* distinct (as get_entity compares them, by their text).                  *)
(***************************************************************************)
C30_IdsPairwiseDistinct ==
    \A entity_type \in DOMAIN entities :
        \A i, j \in 1..Len(entities[entity_type]) :
            i # j => str(entities[entity_type][i]["id"])
                        # str(entities[entity_type][j]["id"])

(***************************************************************************)
(* find_valid_coi_for_sub, on a store whose GeneratedCOI entities were     *)
(* created with the subcontractor and expiration date of their request.    *)
(***************************************************************************)
SubcontractorIds == {PyStr(<<"s", "1">>), PyStr(<<"s", "2">>)}

\* request bodies the GeneratedCOI entities were created from
CoiData ==
    {("subcontractor_id" :> sub_id) @@ Entry("expiration_date", expiry) :
        sub_id \in SubcontractorIds, expiry \in Optional(DateValues)}

\* the list create_entity builds from the request bodies, one after the
\* other, each with a generated id of its own
CreatedList(datas) ==
    [i \in 1..Len(datas) |-> Created(datas[i], <<"u", Digits[i + 1]>>, 0)]

\* variant of IsValidExpiry: a certificate is still valid at the instant it
\* expires
IsValidExpiryInclusive(expiry_date, now) == expiry_date >= now

\* the comparison of line 187
IsValidExpiry(expiry_date, now) == expiry_date > now

\* lines 181-190, the test of one COI: the exceptions of replace (on a value
\* that is no string), of fromisoformat and of the comparison (on a date
\* without offset) are all swallowed by the bare except
IsValidCoi(coi, sub_id, now) ==
    /\ DictGet(coi, "subcontractor_id", PyNone) = sub_id
    /\ LET expiry == DictGet(coi, "expiration_date", PyNone)
       IN  /\ Truthy(expiry)
           /\ expiry.ty = "str"
           /\ LET expiry_date == fromisoformat(replace_Z(expiry.s))
              IN  /\ expiry_date.err = "none"
                  /\ expiry_date.aware
                  /\ IsValidExpiry(expiry_date.t, now)

\* lines 176-193: <<>> for None, or the first COI that passes
find_valid_coi_for_sub(store, sub_id, now) ==
    LET cois == IF "GeneratedCOI" \in DOMAIN store THEN store["GeneratedCOI"]
                ELSE <<>>
        valid == {i \in 1..Len(cois) : IsValidCoi(cois[i], sub_id, now)}
    IN  IF valid = {} THEN <<>>
        ELSE <<cois[CHOOSE i \in valid : \A j \in valid : i <= j]>>

InitFind ==
    /\ \E datas \in UNION {[1..n -> CoiData] : n \in 0..MaxEntities} :
          entities = [entity_type \in {"Project", "GeneratedCOI"} |->
                         IF entity_type = "GeneratedCOI" THEN CreatedList(datas)
                         ELSE <<>>]
    /\ data_file = entities
    /\ tasks = 0
    /\ unscheduled = FALSE
    /\ current_date \in Instants
    /\ pc = "serving"
    /\ coi_data = <<>>
    /\ program_requirements = <<>>
    /\ issues = <<>>
    /\ compliant = TRUE
    /\ exc = "none"
    /\ result = [returned |-> FALSE]
    /\ TextIdle
    /\ PdfIdle
    /\ CallsIdle

\* one call of find_valid_coi_for_sub
FindValidCoi ==
    /\ pc = "serving"
    /\ \E sub_id \in SubcontractorIds :
          result' = [returned |-> TRUE, op |-> "find_valid_coi_for_sub",
                     sub_id |-> sub_id,
                     value |-> find_valid_coi_for_sub(entities, sub_id,
                                                      current_date)]
    /\ exc' = "none"
    /\ UNCHANGED pc
    /\ StoreUnchanged
    /\ StoreFrame

NextFind == FindValidCoi

SpecFind == InitFind /\ [][NextFind]_vars

(***************************************************************************)
(* C28  find_valid_coi_for_sub returns a COI only if its subcontractor_id  *)
(* is the argument and its expiration_date parses to an instant strictly   *)
(* after now; a COI without the date or with an unparsable one is never    *)
(* returned.  For the same date and instant the evaluator agrees: a date   *)
(* accepted here is not reported coverage_expired there, and a date        *)
(* reported expired there is not accepted here.                            *)
(***************************************************************************)
\* analyze_coi_compliance reports the date as coverage_expired at the instant
ReportedExpired(expiry, now) ==
    LET f == CheckGLExpiration("gl_expiration_date" :> expiry, now,
                               Frame(<<>>, TRUE, "none"))
    IN  \E i \in 1..Len(f.issues) : f.issues[i].type = "coverage_expired"

FindReturned == result.returned /\ result.op = "find_valid_coi_for_sub"

C28_FoundCoiIsValid ==
    FindReturned =>
        /\ \A i \in 1..Len(result.value) :
              LET coi == result.value[i]
              IN  /\ \E k \in 1..Len(entities["GeneratedCOI"]) :
                        entities["GeneratedCOI"][k] = coi
                  /\ coi["subcontractor_id"] = result.sub_id
                  /\ "expiration_date" \in DOMAIN coi
                  /\ coi["expiration_date"].ty = "str"
                  /\ LET parsed_date ==
                            fromisoformat(replace_Z(coi["expiration_date"].s))
                     IN  /\ parsed_date.err = "none"
                         /\ parsed_date.t > current_date
                  /\ ~ReportedExpired(coi["expiration_date"], current_date)
        /\ \A k \in 1..Len(entities["GeneratedCOI"]) :
              LET coi == entities["GeneratedCOI"][k]
              IN  ("expiration_date" \in DOMAIN coi
                   /\ ReportedExpired(coi["expiration_date"], current_date))
                     => result.value # <<coi>>

\* the first COI of the subcontractor has expired and the second is returned
C28_Witness ==
    /\ FindReturned
    /\ Len(entities["GeneratedCOI"]) > 1
    /\ entities["GeneratedCOI"][1]["subcontractor_id"] = result.sub_id
    /\ "expiration_date" \in DOMAIN entities["GeneratedCOI"][1]
    /\ ReportedExpired(entities["GeneratedCOI"][1]["expiration_date"], current_date)
    /\ result.value = <<entities["GeneratedCOI"][2]>>

====
